---------------------------- MODULE Spec2Model ----------------------------
(***************************************************************************)
(* A model of the MCRAW to DNG converter:                                  *)
(*   - the browser-side container parser (src/lib/mcraw-decoder.ts),       *)
(*   - the batch job that drives it (src/lib/client-mcraw-processor.ts,    *)
(*     src/app/page.tsx),                                                  *)
(*   - the native frame renderer and DNG assembly (src/src/Utils.cpp),     *)
(*   - the single-flight frame registry of the virtual file system.        *)
(*                                                                         *)
(* A container is a sparse byte array: `bytes` holds the non-zero bytes,   *)
(* every other byte below `len` reads as 0.  The text of a JSON document   *)
(* is not modelled; a container carries the result of JSON.parse for the   *)
(* metadata document (`jsonOk`, `meta`) and for the payload of each        *)
(* type-3 block (`aux`).                                                   *)
(***************************************************************************)
EXTENDS Integers, Sequences, FiniteSets, TLC

(***************************************************************************)
(* Bounds of the model.                                                    *)
(***************************************************************************)
MaxSegs == 2      \* segments after the metadata in a generated container
MaxRun == 6       \* longest run of equal frame blocks in a container
MaxJobs == 1      \* jobs queued by one press of "start processing"
MaxReaders == 3   \* concurrent readers of one frame key

(***************************************************************************)
(* Program constants of the parser.                                        *)
(***************************************************************************)
BLOCK_TYPE_FRAME == 2
BLOCK_TYPE_AUDIO == 3
MinFrameBlock == 1024
MaxFrameBlock == 50 * 1024 * 1024
MinAudioBlock == 100
MaxAudioBlock == 10 * 1024 * 1024
maxConsecutiveInvalid == 5
MinMagicFrame == 100
MaxMagicFrame == 100 * 1024 * 1024
MagicSkip == 100
JsonScanLimit == 50 * 1024 * 1024
DefaultWidth == 4032
DefaultHeight == 3024
OpenBrace == 123
CloseBrace == 125
MCRAW_MAGIC == <<77, 67, 82, 65, 87>>
ZSTD_MAGIC == <<40, 181, 47, 253>>

Min(a, b) == IF a < b THEN a ELSE b
Max(a, b) == IF a > b THEN a ELSE b
SetMin(S) == CHOOSE x \in S : \A y \in S : x <= y

(***************************************************************************)
(* Reading the container.                                                  *)
(***************************************************************************)
ByteAt(f, i) == IF i \in DOMAIN f.bytes THEN f.bytes[i] ELSE 0

\* DataView.getUint32(offset, true).  The checker's integers are 32 bits wide:
\* a value of 2^29 or more reads as 2^29.  Every use compares the value with
\* a threshold below 2^27 or adds it to a file offset below 2^29, so the
\* comparisons come out as they do on the exact value.
Huge == 536870912
getUint32(f, o) ==
    IF ByteAt(f, o + 3) >= 32 THEN Huge
    ELSE ByteAt(f, o) + 256 * ByteAt(f, o + 1) + 65536 * ByteAt(f, o + 2)
             + 16777216 * ByteAt(f, o + 3)

MagicAt(f, o) ==
    /\ ByteAt(f, o) = ZSTD_MAGIC[1]
    /\ ByteAt(f, o + 1) = ZSTD_MAGIC[2]
    /\ ByteAt(f, o + 2) = ZSTD_MAGIC[3]
    /\ ByteAt(f, o + 3) = ZSTD_MAGIC[4]

isZstdCompressed(f, o) == IF o + 4 > f.len THEN FALSE ELSE MagicAt(f, o)


(***************************************************************************)
(* findJsonMetadata: the fixed header first, then the brace-balanced scan. *)
(***************************************************************************)
isMcrawHeader(f) ==
    \A i \in 1..Len(MCRAW_MAGIC) : (i - 1 < f.len) => ByteAt(f, i - 1) = MCRAW_MAGIC[i]

\* The braces seen by the scan loop, below the scan limit.
BracePositions(f) ==
    {o \in DOMAIN f.bytes :
        o < Min(f.len, JsonScanLimit) /\ f.bytes[o] \in {OpenBrace, CloseBrace}}

RECURSIVE BraceScan(_, _, _)
\* The loop body for the braces after jsonStart, in increasing order:
\* returns jsonEnd, or -1 when the braces never balance.
BraceScan(f, rest, braceCount) ==
    IF rest = {} THEN -1
    ELSE LET i == SetMin(rest)
             c == IF f.bytes[i] = OpenBrace THEN braceCount + 1 ELSE braceCount - 1
         IN IF c = 0 THEN i + 1 ELSE BraceScan(f, rest \ {i}, c)

findJsonMetadata(f) ==
    LET metadataOffset == getUint32(f, 7)
        metadataSize == getUint32(f, 11)
        headerHit ==
            /\ isMcrawHeader(f) /\ f.len > 15
            /\ metadataOffset > 0 /\ metadataSize > 0
            /\ metadataOffset + metadataSize <= f.len
            /\ f.hdrJsonOk
        opens == {o \in BracePositions(f) : f.bytes[o] = OpenBrace}
        jsonStart == IF opens = {} THEN -1 ELSE SetMin(opens)
        jsonEnd == IF jsonStart = -1 THEN -1
                   ELSE BraceScan(f, {o \in BracePositions(f) : o > jsonStart}, 1)
    IN IF headerHit
       THEN [found |-> TRUE, endOffset |-> metadataOffset + metadataSize]
       ELSE IF jsonStart = -1 \/ jsonEnd = -1 THEN [found |-> FALSE, endOffset |-> 0]
       ELSE IF f.jsonOk THEN [found |-> TRUE, endOffset |-> jsonEnd]
       ELSE [found |-> FALSE, endOffset |-> 0]

(***************************************************************************)
(* Frame records.  Timestamps are kept multiplied by 24, so that the       *)
(* synthesized i * (1000000 / 24) and i * (1000 / 24) stay integers.  `by` *)
(* names the strategy whose loop pushed the record.                        *)
(***************************************************************************)
FrameInfo(off, sz, comp, ts24, pfm, strategy) ==
    [offset |-> off, size |-> sz, blockType |-> BLOCK_TYPE_FRAME,
     isCompressed |-> comp, timestamp24 |-> ts24, perFrameMetadata |-> pfm,
     by |-> strategy]

NoFrameMeta == [has |-> FALSE, timestamp |-> 0]

\* rawMetadata?.cameraMetadata?.sensorWidth || 4032, and the 12-bit size.
ScanWidth(f) == IF f.meta.sensorWidth # 0 THEN f.meta.sensorWidth ELSE DefaultWidth
ScanHeight(f) == IF f.meta.sensorHeight # 0 THEN f.meta.sensorHeight ELSE DefaultHeight
expected12BitSize(f) == (ScanWidth(f) * ScanHeight(f) * 12) \div 8

\* blockSize < expected12BitSize * 0.9
BelowNineTenths(blockSize, expected) == 10 * blockSize < 9 * expected

\* A faulty variant: a frame block as small as an audio block passes.
isValidFrame_Faulty(blockType, blockSize) ==
    blockType = BLOCK_TYPE_FRAME /\ blockSize >= MinAudioBlock /\ blockSize <= MaxFrameBlock
isValidFrame(blockType, blockSize) ==
    blockType = BLOCK_TYPE_FRAME /\ blockSize >= MinFrameBlock /\ blockSize <= MaxFrameBlock

isValidAudio(blockType, blockSize) ==
    blockType = BLOCK_TYPE_AUDIO /\ blockSize >= MinAudioBlock /\ blockSize <= MaxAudioBlock

\* A faulty variant: the document stays buffered after the frame took it.
ResetFrameMetadata_Faulty(currentFrameMetadata) == currentFrameMetadata
\* currentFrameMetadata = null, once a frame has used it
ResetFrameMetadata(currentFrameMetadata) == NoFrameMeta

RECURSIVE TypedLoop(_, _, _, _, _, _, _)
\* `trace` lists the headers the loop read, in order: where, and what the
\* loop took the header for; `left` is the offset at which the loop ended.
TypedLoop(f, offset, infos, frameCount, consecutiveInvalidCount, currentFrameMetadata, trace) ==
    IF ~(offset < f.len - 8 /\ consecutiveInvalidCount < maxConsecutiveInvalid)
    THEN [infos |-> infos, found |-> frameCount, trace |-> trace, left |-> offset]
    ELSE LET blockType == getUint32(f, offset)
             blockSize == getUint32(f, offset + 4)
         IN IF ~isValidFrame(blockType, blockSize) /\ ~isValidAudio(blockType, blockSize)
            THEN TypedLoop(f, offset + 1, infos, frameCount,
                           consecutiveInvalidCount + 1, currentFrameMetadata,
                           Append(trace, [at |-> offset, as |-> "invalid"]))
            ELSE IF isValidFrame(blockType, blockSize)
            THEN LET ts == IF currentFrameMetadata.timestamp # 0
                           THEN 24 * currentFrameMetadata.timestamp
                           ELSE frameCount * 1000000
                     rec == FrameInfo(offset + 8, blockSize,
                                      BelowNineTenths(blockSize, expected12BitSize(f)),
                                      ts, currentFrameMetadata, 1)
                 IN TypedLoop(f, offset + 8 + blockSize, Append(infos, rec),
                              frameCount + 1, 0,
                              ResetFrameMetadata(currentFrameMetadata),
                              Append(trace, [at |-> offset, as |-> "frame"]))
            ELSE LET parsed == (offset + 8) \in DOMAIN f.aux
                 IN TypedLoop(f, offset + 8 + blockSize, infos, frameCount, 0,
                              IF parsed
                              THEN [has |-> TRUE, timestamp |-> f.aux[offset + 8]]
                              ELSE currentFrameMetadata,
                              Append(trace, [at |-> offset, as |-> "audio"]))

scanTypePrefixedBlocks(f, startOffset, infos) ==
    TypedLoop(f, startOffset, infos, 0, 0, NoFrameMeta, <<>>)

RECURSIVE SizedLoop(_, _, _)
SizedLoop(f, offset, infos) ==
    IF ~(offset < f.len - 8) THEN infos
    ELSE LET size == getUint32(f, offset)
         IN IF /\ size >= MinFrameBlock /\ size <= MaxFrameBlock
               /\ offset + 4 + size <= f.len
               /\ isZstdCompressed(f, offset + 4)
            THEN SizedLoop(f, offset + 4 + size,
                           Append(infos, FrameInfo(offset + 4, size, TRUE,
                                                   Len(infos) * 1000, NoFrameMeta, 2)))
            ELSE infos

scanSizePrefixedZstd(f, startOffset, infos) ==
    LET out == SizedLoop(f, startOffset, infos)
    IN [infos |-> out, found |-> Len(out)]

RECURSIVE MagicOffsets(_, _, _)
\* for (i = from; i < len - 4; i++) if magic at i: push i, i += 100
MagicOffsets(f, from, acc) ==
    LET hits == {o \in DOMAIN f.bytes : o >= from /\ o < f.len - 4 /\ MagicAt(f, o)}
    IN IF hits = {} THEN acc
       ELSE LET i == SetMin(hits)
            IN MagicOffsets(f, i + MagicSkip + 1, Append(acc, i))

RECURSIVE MagicFrames(_, _, _, _)
MagicFrames(f, frameOffsets, i, infos) ==
    IF i > Len(frameOffsets) THEN infos
    ELSE LET offset == frameOffsets[i]
             nextOffset == IF i < Len(frameOffsets) THEN frameOffsets[i + 1] ELSE f.len
             size == nextOffset - offset
         IN MagicFrames(f, frameOffsets, i + 1,
                IF size >= MinMagicFrame /\ size <= MaxMagicFrame
                THEN Append(infos, FrameInfo(offset, size, TRUE, (i - 1) * 1000,
                                             NoFrameMeta, 3))
                ELSE infos)

scanZstdMagic(f, startOffset, infos) ==
    LET out == MagicFrames(f, MagicOffsets(f, startOffset, <<>>), 1, infos)
    IN [infos |-> out, found |-> Len(out)]

RECURSIVE FixedFrames(_, _, _, _, _)
FixedFrames(f, startOffset, frameSize, i, infos) ==
    IF i >= f.meta.numSegments THEN infos
    ELSE LET offset == startOffset + i * frameSize
         IN FixedFrames(f, startOffset, frameSize, i + 1,
                IF offset + frameSize <= f.len
                THEN Append(infos, FrameInfo(offset, frameSize, isZstdCompressed(f, offset),
                                             i * 1000, NoFrameMeta, 4))
                ELSE infos)

applyFixedFrameSize(f, startOffset, infos) ==
    LET numSegments == f.meta.numSegments
        dataSize == f.len - startOffset
        frameSize == IF numSegments > 0 THEN dataSize \div numSegments ELSE 0
    IN IF numSegments <= 0 THEN [infos |-> infos, found |-> 0]
       ELSE IF frameSize < MinFrameBlock THEN [infos |-> infos, found |-> 0]
       ELSE LET out == FixedFrames(f, startOffset, frameSize, 0, infos)
            IN [infos |-> out, found |-> Len(out)]

\* outputWidth || forwardMatrix?.length > 0 ? 4032 : 0   (|| binds tighter than ?:)
RawBayerWidth(f) ==
    IF f.meta.outputWidth # 0 \/ f.meta.forwardMatrixLen > 0 THEN DefaultWidth ELSE 0
RawBayerHeight(f) ==
    IF f.meta.outputHeight # 0 \/ f.meta.forwardMatrixLen > 0 THEN DefaultHeight ELSE 0

RECURSIVE RawFrames(_, _, _, _, _)
RawFrames(startOffset, expectedFrameSize, possibleFrames, i, infos) ==
    IF i >= possibleFrames THEN infos
    ELSE RawFrames(startOffset, expectedFrameSize, possibleFrames, i + 1,
                   Append(infos, FrameInfo(startOffset + i * expectedFrameSize,
                                           expectedFrameSize, FALSE, i * 1000,
                                           NoFrameMeta, 5)))

scanRawBayerBlocks(f, startOffset, infos) ==
    LET width == RawBayerWidth(f)
        height == RawBayerHeight(f)
        expectedFrameSize == width * height * 2
        dataSize == f.len - startOffset
    IN IF width = 0 \/ height = 0 THEN [infos |-> infos, found |-> 0]
       ELSE LET possibleFrames == dataSize \div expectedFrameSize
            IN IF possibleFrames = 0 THEN [infos |-> infos, found |-> 0]
               ELSE LET out == RawFrames(startOffset, expectedFrameSize, possibleFrames,
                                         0, infos)
                    IN [infos |-> out, found |-> Len(out)]

(***************************************************************************)
(* scanFrameBlocks: the five strategies share this.frameInfos; each is     *)
(* tried on what the earlier ones left, and the scan returns at the first  *)
(* whose return value is positive.  `tried` lists <<strategy, blocksFound>>*)
(* in the order of the calls.                                              *)
(***************************************************************************)
RunStrategy(n, f, startOffset, infos) ==
    CASE n = 1 -> scanTypePrefixedBlocks(f, startOffset, infos)
      [] n = 2 -> scanSizePrefixedZstd(f, startOffset, infos)
      [] n = 3 -> scanZstdMagic(f, startOffset, infos)
      [] n = 4 -> applyFixedFrameSize(f, startOffset, infos)
      [] OTHER -> scanRawBayerBlocks(f, startOffset, infos)

NumStrategies == 5

\* `if (blocksFound > 0) return`
\* A faulty variant: one frame is not enough to stop the chain.
StopsAfter_Faulty(blocksFound) == blocksFound > 1
StopsAfter(blocksFound) == blocksFound > 0

RECURSIVE StrategyChain(_, _, _, _, _)
StrategyChain(n, f, startOffset, infos, tried) ==
    IF n > NumStrategies THEN [frameInfos |-> infos, tried |-> tried]
    ELSE LET r == RunStrategy(n, f, startOffset, infos)
             t == Append(tried, <<n, r.found>>)
         IN IF StopsAfter(r.found) THEN [frameInfos |-> r.infos, tried |-> t]
            ELSE StrategyChain(n + 1, f, startOffset, r.infos, t)

scanFrameBlocks(f, startOffset) == StrategyChain(1, f, startOffset, <<>>, <<>>)

(***************************************************************************)
(* parse(): metadata, frame scan, normalized geometry (buildMetadata).     *)
(* meta.width and meta.height stand for the first truthy of raw.width,     *)
(* raw.sensorWidth, deviceMeta.width, extraData.width; 0 when none is set. *)
(***************************************************************************)
MetaWidth(f) == IF f.meta.width # 0 THEN f.meta.width ELSE DefaultWidth
MetaHeight(f) == IF f.meta.height # 0 THEN f.meta.height ELSE DefaultHeight

\* What the first strategy read, kept beside the frame records: the headers
\* in scan order and the offset where the strategy gave up or ran out.
NoTypedScan == [trace |-> <<>>, left |-> 0]
TypedScan(f, startOffset) ==
    LET r == scanTypePrefixedBlocks(f, startOffset, <<>>)
    IN [trace |-> r.trace, left |-> r.left]

\* A faulty variant: without a metadata document, scan from the first byte.
ParseWithoutJson_Faulty(f) ==
    LET scan == scanFrameBlocks(f, 0)
    IN [ok |-> TRUE, error |-> "", frameDataStart |-> 0,
        frameInfos |-> scan.frameInfos, tried |-> scan.tried,
        width |-> DefaultWidth, height |-> DefaultHeight, typed |-> NoTypedScan]
\* What parse() does when findJsonMetadata returns null.
ParseWithoutJson(f) ==
    [ok |-> FALSE, error |-> "Failed to find JSON metadata in MCRAW file",
     frameDataStart |-> 0, frameInfos |-> <<>>, tried |-> <<>>,
     width |-> 0, height |-> 0, typed |-> NoTypedScan]

parse(f) ==
    LET jsonResult == findJsonMetadata(f)
    IN IF ~jsonResult.found THEN ParseWithoutJson(f)
       ELSE LET scan == scanFrameBlocks(f, jsonResult.endOffset)
            IN [ok |-> TRUE, error |-> "",
                frameDataStart |-> jsonResult.endOffset,
                frameInfos |-> scan.frameInfos, tried |-> scan.tried,
                width |-> MetaWidth(f), height |-> MetaHeight(f),
                typed |-> TypedScan(f, jsonResult.endOffset)]

NoDecoder ==
    [ok |-> FALSE, error |-> "", frameDataStart |-> 0, frameInfos |-> <<>>,
     tried |-> <<>>, width |-> 0, height |-> 0, typed |-> NoTypedScan]

(***************************************************************************)
(* decodeFrame.  `d` is the length fzstd.decompress returns for this       *)
(* frame's payload, -1 when it throws; it is read only for a compressed    *)
(* frame.  A decompressed buffer is its own ArrayBuffer (byteOffset 0); an *)
(* uncompressed payload is a view into the file at frameInfo.offset, and   *)
(* new Uint16Array(buffer, byteOffset, n) throws a RangeError when         *)
(* byteOffset is odd or the n samples do not fit the buffer.  rawLen is    *)
(* rawData.length, -1 when decodeFrame threw before it had rawData.        *)
(***************************************************************************)
commonResolutions ==
    << <<4032, 3024>>, <<3024, 4032>>, <<4000, 3000>>, <<3000, 4000>>,
       <<1920, 1080>>, <<1080, 1920>>, <<1280, 720>>, <<720, 1280>> >>
ResolutionTolerance == 1000

Abs(x) == IF x < 0 THEN -x ELSE x
Size12(pixels) == (3 * pixels + 1) \div 2       \* Math.ceil(pixels * 1.5)
Size16(pixels) == pixels * 2

Threw(msg) ==
    [threw |-> TRUE, error |-> msg, bayerLen |-> 0, width |-> 0, height |-> 0,
     layout |-> "none", rawLen |-> -1]
Decoded(n, w, h, how) ==
    [threw |-> FALSE, error |-> "", bayerLen |-> n, width |-> w, height |-> h,
     layout |-> how, rawLen |-> -1]

Uint16View(byteOffset, bufLen, n, w, h, how) ==
    IF byteOffset % 2 # 0 \/ byteOffset + 2 * n > bufLen
    THEN Threw("RangeError")
    ELSE Decoded(n, w, h, how)

\* A faulty variant: the last branch rejects the payload.
LastResort_Faulty(rawLen, w, h) == Threw("Size mismatch")
\* The last branch of decodeFrame: no layout and no common resolution fits.
LastResort(rawLen, w, h) == Decoded(rawLen \div 2, w, h, "raw16")

RECURSIVE InferResolution(_, _, _, _, _, _)
InferResolution(k, rawLen, byteOffset, bufLen, w, h) ==
    IF k > Len(commonResolutions) THEN LastResort(rawLen, w, h)
    ELSE LET rw == commonResolutions[k][1]
             rh == commonResolutions[k][2]
             pixels == rw * rh
         IN IF Abs(rawLen - Size12(pixels)) < ResolutionTolerance
            THEN Decoded(pixels, rw, rh, "inferred12")
            ELSE IF Abs(rawLen - Size16(pixels)) < ResolutionTolerance
            THEN Uint16View(byteOffset, bufLen, pixels, rw, rh, "inferred16")
            ELSE InferResolution(k + 1, rawLen, byteOffset, bufLen, w, h)

ConvertToBayer(rawLen, byteOffset, bufLen, w, h) ==
    LET pixelCount == w * h
    IN IF rawLen = Size16(pixelCount)
       THEN Uint16View(byteOffset, bufLen, pixelCount, w, h, "16")
       ELSE IF rawLen >= Size12(pixelCount) /\ rawLen < Size16(pixelCount)
       THEN Decoded(pixelCount, w, h, "12")
       ELSE IF rawLen = pixelCount
       THEN Decoded(pixelCount, w, h, "8")
       ELSE InferResolution(1, rawLen, byteOffset, bufLen, w, h)

decodeFrame(f, dec, frameIndex, d) ==
    IF ~dec.ok THEN Threw("Must call parse() before decoding frames")
    ELSE IF frameIndex < 0 \/ frameIndex >= Len(dec.frameInfos)
    THEN Threw("Frame index out of range")
    ELSE LET frameInfo == dec.frameInfos[frameIndex + 1]
         IN IF frameInfo.offset + frameInfo.size > f.len
            THEN Threw("Frame data extends beyond file")
            ELSE IF frameInfo.isCompressed
            THEN IF d < 0 THEN Threw("Failed to decompress frame")
                 ELSE [ConvertToBayer(d, 0, d, dec.width, dec.height)
                          EXCEPT !.rawLen = d]
            ELSE [ConvertToBayer(frameInfo.size, frameInfo.offset, f.len,
                                 dec.width, dec.height)
                     EXCEPT !.rawLen = frameInfo.size]

\* The lengths fzstd.decompress may return for a payload (-1: it throws).
DecompressedLengths(dec) ==
    {-1, 0, 1, 2000,
     dec.width * dec.height, Size12(dec.width * dec.height),
     Size16(dec.width * dec.height),
     Size12(1920 * 1080) + 999, Size16(1280 * 720) - 999, Size16(1280 * 720) - 1000}

(***************************************************************************)
(* Containers offered to the program.  A container is a head (where the    *)
(* metadata document sits and what it parses to) followed by segments.     *)
(***************************************************************************)
LE32(o, v) == [i \in o..(o + 3) |-> (v \div (256 ^ (i - o))) % 256]
Magic4(o) == [i \in o..(o + 3) |-> ZSTD_MAGIC[i - o + 1]]
Nothing == [i \in {} |-> 0]

Seg(k, t, sz, pl, mg, tsv) ==
    [kind |-> k, type |-> t, size |-> sz, plen |-> pl, magic |-> mg, ts |-> tsv]

SegLen(sg) ==
    CASE sg.kind = "typed" -> 8 + sg.plen
      [] sg.kind = "sized" -> 4 + sg.plen
      [] OTHER -> sg.plen

SegBytes(sg, o) ==
    CASE sg.kind = "typed" ->
            LE32(o, sg.type) @@ LE32(o + 4, sg.size)
                @@ (IF sg.magic THEN Magic4(o + 8) ELSE Nothing)
      [] sg.kind = "sized" -> LE32(o, sg.size) @@ Magic4(o + 4)
      [] sg.kind = "magic" -> Magic4(o)
      [] sg.kind = "junk" -> [i \in o..(o + sg.plen - 1) |-> 255]
      [] OTHER -> Nothing

SegAux(sg, o) ==
    IF sg.kind = "typed" /\ sg.ts >= 0 THEN (o + 8) :> sg.ts ELSE Nothing

RECURSIVE Assemble(_, _, _)
Assemble(segs, i, acc) ==
    IF i > Len(segs) THEN acc
    ELSE Assemble(segs, i + 1,
                  [len |-> acc.len + SegLen(segs[i]),
                   bytes |-> acc.bytes @@ SegBytes(segs[i], acc.len),
                   aux |-> acc.aux @@ SegAux(segs[i], acc.len)])

Container(head, meta, segs) ==
    LET body == Assemble(segs, 1, [len |-> head.len, bytes |-> head.bytes, aux |-> Nothing])
    IN [len |-> body.len, bytes |-> body.bytes, aux |-> body.aux,
        hdrJsonOk |-> head.hdrJsonOk, jsonOk |-> head.jsonOk, meta |-> meta]

BraceHead(start, size, parses) ==
    [len |-> start + size,
     bytes |-> (start :> OpenBrace) @@ ((start + size - 1) :> CloseBrace),
     hdrJsonOk |-> FALSE, jsonOk |-> parses]

McrawHead(metadataOffset, metadataSize, headerParses) ==
    [len |-> 56,
     bytes |-> [i \in 0..4 |-> MCRAW_MAGIC[i + 1]] @@ LE32(7, metadataOffset)
                 @@ LE32(11, metadataSize) @@ (16 :> OpenBrace) @@ (55 :> CloseBrace),
     hdrJsonOk |-> headerParses, jsonOk |-> TRUE]

Meta(w, h, sw, sh, ow, oh, fm, ns) ==
    [width |-> w, height |-> h, sensorWidth |-> sw, sensorHeight |-> sh,
     outputWidth |-> ow, outputHeight |-> oh, forwardMatrixLen |-> fm,
     numSegments |-> ns]

NoGeometry == Meta(0, 0, 0, 0, 0, 0, 0, 0)
SmallGeometry == Meta(64, 32, 64, 32, 0, 0, 0, 0)

\* Head and metadata document of the generated containers.
Headers ==
    { <<BraceHead(0, 50, TRUE), NoGeometry>>,
      <<BraceHead(0, 50, TRUE), SmallGeometry>>,
      <<BraceHead(0, 50, TRUE), Meta(0, 0, 0, 0, 0, 0, 0, 2)>>,
      <<BraceHead(0, 50, TRUE), Meta(0, 0, 0, 0, 0, 0, 3, 0)>>,
      <<BraceHead(0, 50, TRUE), Meta(1920, 1080, 0, 0, 1920, 1080, 0, 0)>>,
      <<BraceHead(1, 50, TRUE), SmallGeometry>>,      \* payload at an odd offset
      <<BraceHead(0, 50, FALSE), NoGeometry>>,        \* balanced braces, not JSON
      <<McrawHead(16, 40, TRUE), SmallGeometry>>,     \* fixed header, document
      <<McrawHead(16, 30, FALSE), NoGeometry>>,       \* fixed header, fragment
      <<[len |-> 50, bytes |-> Nothing, hdrJsonOk |-> FALSE, jsonOk |-> FALSE],
        NoGeometry>>,                                 \* no brace at all
      <<[len |-> 50, bytes |-> (0 :> OpenBrace), hdrJsonOk |-> FALSE,
         jsonOk |-> FALSE], NoGeometry>> }            \* a brace never closed

RawFrameBytes == DefaultWidth * DefaultHeight * 2

FrameSeg == Seg("typed", BLOCK_TYPE_FRAME, 1024, 1024, FALSE, -1)

Palette ==
    { FrameSeg,
      Seg("typed", BLOCK_TYPE_FRAME, 4096, 4096, FALSE, -1),   \* 64 x 32 at 16 bits
      Seg("typed", BLOCK_TYPE_FRAME, 2048, 500, TRUE, -1),     \* cut short by the file end
      Seg("typed", BLOCK_TYPE_AUDIO, 100, 100, FALSE, 7000000),\* per-frame JSON
      Seg("typed", BLOCK_TYPE_AUDIO, 100, 100, FALSE, -1),     \* audio samples
      Seg("sized", 0, 1024, 1024, TRUE, -1),
      Seg("magic", 0, 0, 1500, TRUE, -1),
      Seg("magic", 0, 0, 60, TRUE, -1),
      Seg("fill", 0, 0, 3000, FALSE, -1),
      Seg("fill", 0, 0, RawFrameBytes + 10, FALSE, -1),
      Seg("junk", 0, 0, 3, FALSE, -1) }

\* A type-3 block holding a JSON document with this timestamp, a type-3
\* block of audio samples, and n bytes 0xff between two blocks.
JsonSeg(ts) == Seg("typed", BLOCK_TYPE_AUDIO, 100, 100, FALSE, ts)
AudioSeg == Seg("typed", BLOCK_TYPE_AUDIO, 100, 100, FALSE, -1)
Junk(n) == Seg("junk", 0, 0, n, FALSE, -1)

\* Clips with per-frame documents, and clips with bytes between the blocks.
AnnotatedLayouts ==
    { <<JsonSeg(7000000), FrameSeg, FrameSeg>>,
      <<FrameSeg, JsonSeg(7000000), FrameSeg>>,
      <<JsonSeg(3000000), FrameSeg, JsonSeg(7000000), FrameSeg>>,
      <<JsonSeg(7000000), FrameSeg, JsonSeg(3000000), FrameSeg>>,
      <<JsonSeg(7000000), JsonSeg(3000000), FrameSeg, FrameSeg>>,
      <<JsonSeg(7000000), AudioSeg, FrameSeg, FrameSeg>>,
      <<FrameSeg, Junk(4), FrameSeg>>,
      <<FrameSeg, Junk(5), FrameSeg>>,
      <<Junk(4), FrameSeg, Junk(4), FrameSeg>>,
      <<FrameSeg, Seg("typed", BLOCK_TYPE_FRAME, 512, 512, FALSE, -1)>>,
      <<FrameSeg, Seg("typed", BLOCK_TYPE_AUDIO, 50, 50, FALSE, -1)>>,
      <<Seg("typed", BLOCK_TYPE_FRAME, 4096, 4096, TRUE, -1)>> }

Layouts(n) ==
    UNION {[1..k -> Palette] : k \in 0..n}
        \cup {[i \in 1..k |-> FrameSeg] : k \in 1..MaxRun}
        \cup AnnotatedLayouts

Files == {Container(hm[1], hm[2], segs) : hm \in Headers, segs \in Layouts(MaxSegs)}

EmptyFile ==
    [len |-> 0, bytes |-> Nothing, aux |-> Nothing, hdrJsonOk |-> FALSE,
     jsonOk |-> FALSE, meta |-> NoGeometry]

(***************************************************************************)
(* State.                                                                  *)
(***************************************************************************)
VARIABLES
    upFile,      \* the file dropped on the upload zone
    upStatus,    \* its UploadedFile.status: none, parsing, ready, error
    upDecoder,   \* the McrawDecoder of parseClientSideMcraw after parse()
    upThumb,     \* what decodeFrame(0) gave for the thumbnail
    jobFile,     \* the container behind the files selected for processing
    settings,    \* the ProcessingSettings copied into the jobs (frameRange)
    jobs,        \* page.tsx `jobs`: job id -> ProcessingJob ("absent": not listed)
    run,         \* the running handleStartProcessing / processClientSideMcraw call
    results,     \* job id -> how its processClientSideMcraw call ended
    rIn,         \* generateDng: the frame metadata and RenderSettings of the last call
    rOut,        \* generateDng: what preprocessData returned and the tags written
    registry,    \* frame reads: key -> the render in flight for it
    cache,       \* frame reads: key -> cached DNG
    readers,     \* frame reads: the state of each readFile call
    renders,     \* frame reads: how many renders were started
    pkIn,        \* bit packer: the width and the row of samples to pack
    pkOut,       \* bit packer: the packed bytes and what unpackBits made of them
    clock,       \* DngEncoder: the wall clock, in half seconds
    encIn,       \* DngEncoder: the decoded frame given to encode()
    encOut,      \* DngEncoder: the DNG files encode() returned, in call order
    fpsIn,       \* FPS inference: the timestamps of the frame records
    fpsOut,      \* FPS inference: what calculateFpsFromTimestamps returned
    tcIn,        \* time code: the frame number and the output frame rate
    tcOut,       \* time code: the eight bytes generateDng wrote
    cfaIn,       \* CFA pattern: the encoder and the arrangement it is given
    cfaOut,      \* CFA pattern: the bytes of the CFAPattern tag, or the throw
    lpIn,        \* pixel loop: input size, crop target, draft scale, Quad-Bayer
    lp,          \* pixel loop: x, y, dstOffset and what was read and written
    win,         \* main window: widgets, members, updateOptions calls, timers
    lvIn,        \* the levels string of the render settings
    lvOut,       \* source levels after the override was attempted
    ep           \* in-place packing: the buffer, srcPtr, dstPtr, x and y

uploadVars == <<upFile, upStatus, upDecoder, upThumb>>
jobVars == <<jobFile, settings, jobs, run, results>>
renderVars == <<rIn, rOut>>
flightVars == <<registry, cache, readers, renders>>
packVars == <<pkIn, pkOut>>
encVars == <<clock, encIn, encOut>>
fpsVars == <<fpsIn, fpsOut>>
earlierVars == <<uploadVars, jobVars, renderVars, flightVars, packVars, encVars, fpsVars>>
tcVars == <<tcIn, tcOut>>
cfaVars == <<cfaIn, cfaOut>>
loopVars == <<lpIn, lp>>
winVars == <<win>>
levelVars == <<lvIn, lvOut>>
inPlaceVars == <<ep>>
laterVars == <<tcVars, cfaVars, loopVars, winVars, levelVars, inPlaceVars>>
vars == <<upFile, upStatus, upDecoder, upThumb, jobFile, settings, jobs, run, results,
          rIn, rOut, registry, cache, readers, renders, pkIn, pkOut,
          clock, encIn, encOut, fpsIn, fpsOut, tcIn, tcOut,
          cfaIn, cfaOut, lpIn, lp, win, lvIn, lvOut, ep>>

InitUpload ==
    /\ upFile = EmptyFile
    /\ upStatus = "none"
    /\ upDecoder = NoDecoder
    /\ upThumb = Threw("")

(***************************************************************************)
(* handleFilesAdded -> parseClientSideMcraw.                               *)
(***************************************************************************)
FilesAdded(c) ==
    /\ upStatus = "none"
    /\ upFile' = c
    /\ upStatus' = "parsing"
    /\ UNCHANGED <<upDecoder, upThumb>>
    /\ UNCHANGED <<jobVars, renderVars, flightVars, packVars, encVars, fpsVars, laterVars>>

ParseClientSide(d) ==
    /\ upStatus = "parsing"
    /\ LET dec == parse(upFile)
       IN /\ upDecoder' = dec
          /\ upThumb' = IF dec.ok THEN decodeFrame(upFile, dec, 0, d) ELSE Threw("")
          /\ upStatus' = IF dec.ok THEN "ready" ELSE "error"
    /\ UNCHANGED upFile
    /\ UNCHANGED <<jobVars, renderVars, flightVars, packVars, encVars, fpsVars, laterVars>>

DeleteFiles ==
    /\ upStatus \in {"ready", "error"}
    /\ upFile' = EmptyFile
    /\ upStatus' = "none"
    /\ upDecoder' = NoDecoder
    /\ upThumb' = Threw("")
    /\ UNCHANGED <<jobVars, renderVars, flightVars, packVars, encVars, fpsVars, laterVars>>

NextUpload ==
    \/ \E c \in Files : FilesAdded(c)
    \/ \E d \in DecompressedLengths(parse(upFile)) : ParseClientSide(d)
    \/ DeleteFiles

(***************************************************************************)
(* The processing queue: handleStartProcessing, processClientSideMcraw,    *)
(* handleCancelJob, handleClearCompleted.                                  *)
(*                                                                         *)
(* run.pc is where the async handler stands:                               *)
(*   idle     no handler is running                                        *)
(*   loading  suspended in `await file.arrayBuffer()`                      *)
(*   running  between two frames with no macrotask boundary in between     *)
(*            (after a failed frame the loop goes on in the same task)     *)
(*   yield    suspended in `await yieldToMain()` after a delivered frame   *)
(*   done     the handler has returned                                     *)
(* Click handlers run only while the handler is suspended or has returned. *)
(***************************************************************************)
JobIds == 1..MaxJobs

AbsentJob ==
    [status |-> "absent", error |-> "", currentFrame |-> 0, outputFiles |-> <<>>]
QueuedJob ==
    [status |-> "queued", error |-> "", currentFrame |-> 0, outputFiles |-> <<>>]

IdleRun ==
    [pc |-> "idle", job |-> 0, count |-> 0, decoder |-> NoDecoder, i |-> 0,
     endFrame |-> 0, framesToProcess |-> 0, successfulFrames |-> 0,
     failedFrames |-> 0, processedFrames |-> <<>>]

\* The value or the exception of one processClientSideMcraw call; delivered
\* counts its onFrameReady calls.
NoResult ==
    [returned |-> "none", error |-> "", successfulFrames |-> 0, failedFrames |-> 0,
     totalFrames |-> 0, delivered |-> 0, sink |-> <<>>]
Outcome(r, how, msg) ==
    [returned |-> how, error |-> msg, successfulFrames |-> r.successfulFrames,
     failedFrames |-> r.failedFrames, totalFrames |-> r.framesToProcess,
     delivered |-> Len(r.processedFrames), sink |-> r.processedFrames]

NoRange == [start |-> 0, end |-> 0]
FrameRanges == {NoRange, [start |-> 1, end |-> 4]}

\* The first file has six frames: the fewest of which five are more than 80%.
JobFiles ==
    { Container(BraceHead(0, 50, TRUE), SmallGeometry, [i \in 1..6 |-> FrameSeg]),
      Container(BraceHead(0, 50, TRUE), SmallGeometry,
                <<Seg("typed", BLOCK_TYPE_FRAME, 4096, 4096, FALSE, -1)>>),
      Container(BraceHead(1, 50, TRUE), SmallGeometry,
                <<Seg("typed", BLOCK_TYPE_FRAME, 4096, 4096, FALSE, -1)>>),
      Container(BraceHead(0, 50, TRUE), SmallGeometry,
                <<FrameSeg, Seg("typed", BLOCK_TYPE_FRAME, 2048, 500, TRUE, -1)>>),
      Container(BraceHead(0, 50, TRUE), NoGeometry, <<FrameSeg>>),
      Container(BraceHead(0, 50, TRUE), NoGeometry, <<>>),
      Container(BraceHead(0, 50, FALSE), NoGeometry, <<FrameSeg>>),
      Container([len |-> 0, bytes |-> Nothing, hdrJsonOk |-> FALSE, jsonOk |-> FALSE],
                SmallGeometry, <<FrameSeg>>) }

InitJobs ==
    /\ jobFile = EmptyFile
    /\ settings = [frameRange |-> NoRange]
    /\ jobs = [k \in JobIds |-> AbsentJob]
    /\ run = IdleRun
    /\ results = [k \in JobIds |-> NoResult]

\* setJobs(prev => prev.map(j => j.id === id ? {...j, ...} : j))
SetJob(js, id, new) == IF js[id].status = "absent" THEN js ELSE [js EXCEPT ![id] = new]

\* The loop of handleStartProcessing moves on to job `id`: it is marked
\* processing and processClientSideMcraw suspends loading the file.
BeginJob(js, r, id, res) ==
    IF id > r.count
    THEN [jobs |-> js, results |-> res,
          run |-> [IdleRun EXCEPT !.pc = "done", !.count = r.count]]
    ELSE [jobs |-> SetJob(js, id, [js[id] EXCEPT !.status = "processing"]),
          results |-> res,
          run |-> [IdleRun EXCEPT !.pc = "loading", !.job = id, !.count = r.count]]

\* The handler goes on inside the same processClientSideMcraw call.
Continue(js, r) == [jobs |-> js, results |-> results, run |-> r]

\* catch (error) in handleStartProcessing
JobFailed(js, r, msg) ==
    BeginJob(SetJob(js, r.job, [js[r.job] EXCEPT !.status = "failed", !.error = msg]),
             r, r.job + 1, [results EXCEPT ![r.job] = Outcome(r, "threw", msg)])

\* processClientSideMcraw returned `result`
JobCompleted(js, r) ==
    BeginJob(SetJob(js, r.job, [js[r.job] EXCEPT !.status = "completed",
                                                !.currentFrame = r.successfulFrames,
                                                !.outputFiles = r.processedFrames]),
             r, r.job + 1, [results EXCEPT ![r.job] = Outcome(r, "ok", "")])

\* filesToProcess: the selected files that are ready (parsed when they were
\* added); the batch is n files of the content that was added.
handleStartProcessing(range, n) ==
    /\ run.pc = "idle"
    /\ upStatus = "ready"
    /\ jobFile' = upFile
    /\ settings' = [frameRange |-> range]
    /\ LET b == BeginJob([k \in JobIds |-> IF k <= n THEN QueuedJob ELSE AbsentJob],
                         [IdleRun EXCEPT !.count = n], 1, results)
       IN jobs' = b.jobs /\ run' = b.run /\ results' = b.results
    /\ UNCHANGED <<uploadVars, renderVars, flightVars, packVars, encVars, fpsVars, laterVars>>

\* What follows decoder.parse(): the frame count, the range, the first frame.
AfterParse(js, r, dec, frameRange) ==
    LET totalFrames == Len(dec.frameInfos)
        startFrame == frameRange.start
        endFrame == Min(IF frameRange.end # 0 THEN frameRange.end
                        ELSE totalFrames - 1, totalFrames - 1)
    IN IF ~dec.ok THEN JobFailed(js, r, dec.error)
       ELSE IF totalFrames = 0
       THEN JobFailed(js, r, "No frames found in MCRAW file")
       ELSE Continue(js, [r EXCEPT !.pc = "running", !.decoder = dec,
                                   !.i = startFrame, !.endFrame = endFrame,
                                   !.framesToProcess = endFrame - startFrame + 1])

\* After the file is loaded: decoder.parse(), the frame count, the range.
ParseStep ==
    /\ run.pc = "loading"
    /\ \E b \in {AfterParse(jobs, run, parse(jobFile), settings.frameRange)} :
           jobs' = b.jobs /\ run' = b.run /\ results' = b.results
    /\ UNCHANGED <<jobFile, settings>>
    /\ UNCHANGED <<uploadVars, renderVars, flightVars, packVars, encVars, fpsVars, laterVars>>

\* failedFrames > framesToProcess * 0.8
TooManyFailures(failedFrames, framesToProcess) == 5 * failedFrames > 4 * framesToProcess

\* A faulty variant: the empty frame is not counted as failed.
AfterEmptyFrame_Faulty(js, r) ==
    Continue(js, [r EXCEPT !.pc = "running", !.i = r.i + 1,
                           !.failedFrames = r.failedFrames - 1])
\* What the empty-data branch does after failedFrames++ : `continue`.
AfterEmptyFrame(js, r) == Continue(js, [r EXCEPT !.pc = "running", !.i = r.i + 1])

\* The catch block of the frame loop, after failedFrames++.
AfterThrownFrame(js, r) ==
    IF TooManyFailures(r.failedFrames, r.framesToProcess)
    THEN JobFailed(js, r, "Too many frame failures")
    ELSE Continue(js, [r EXCEPT !.pc = "running", !.i = r.i + 1])

\* One pass of the frame loop.  d: what decompression gives; encodeThrows:
\* whether DngEncoder.encode fails (its buffer cannot be allocated).
FrameStep(d, encodeThrows) ==
    /\ run.pc \in {"running", "yield"}
    /\ run.i <= run.endFrame
    /\ LET js == SetJob(jobs, run.job, [jobs[run.job] EXCEPT !.currentFrame = run.i + 1])
           frame == decodeFrame(jobFile, run.decoder, run.i, d)
           failed == [run EXCEPT !.failedFrames = run.failedFrames + 1]
           b == IF frame.threw THEN AfterThrownFrame(js, failed)
                ELSE IF frame.bayerLen = 0 THEN AfterEmptyFrame(js, failed)
                ELSE IF encodeThrows THEN AfterThrownFrame(js, failed)
                ELSE LET out == Append(run.processedFrames, run.i)
                     IN Continue(SetJob(js, run.job,
                                        [js[run.job] EXCEPT !.outputFiles = out]),
                                 [run EXCEPT !.pc = "yield", !.i = run.i + 1,
                                             !.processedFrames = out,
                                             !.successfulFrames = run.successfulFrames + 1])
       IN jobs' = b.jobs /\ run' = b.run /\ results' = b.results
    /\ UNCHANGED <<jobFile, settings>>
    /\ UNCHANGED <<uploadVars, renderVars, flightVars, packVars, encVars, fpsVars, laterVars>>

\* The loop is over: the final check and the return.
EndStep ==
    /\ run.pc \in {"running", "yield"}
    /\ run.i > run.endFrame
    /\ LET b == IF run.successfulFrames = 0
                THEN JobFailed(jobs, run, "Failed to process any frames")
                ELSE JobCompleted(jobs, run)
       IN jobs' = b.jobs /\ run' = b.run /\ results' = b.results
    /\ UNCHANGED <<jobFile, settings>>
    /\ UNCHANGED <<uploadVars, renderVars, flightVars, packVars, encVars, fpsVars, laterVars>>

Suspended == run.pc \in {"loading", "yield", "done"}

handleCancelJob(id) ==
    /\ Suspended
    /\ jobs[id].status \notin {"absent", "completed"}
    /\ jobs' = [jobs EXCEPT ![id].status = "failed", ![id].error = "Cancelled by user"]
    /\ UNCHANGED <<jobFile, settings, run, results>>
    /\ UNCHANGED <<uploadVars, renderVars, flightVars, packVars, encVars, fpsVars, laterVars>>

handleClearCompleted ==
    /\ Suspended
    /\ \E k \in JobIds : jobs[k].status \in {"completed", "failed"}
    /\ jobs' = [k \in JobIds |->
                   IF jobs[k].status \in {"completed", "failed"} THEN AbsentJob ELSE jobs[k]]
    /\ UNCHANGED <<jobFile, settings, run, results>>
    /\ UNCHANGED <<uploadVars, renderVars, flightVars, packVars, encVars, fpsVars, laterVars>>

\* The lengths decompression gives in a job: it throws, nothing, a payload
\* that fits no layout, a 16-bit frame.
JobLengths(dec) == {-1, 0, 2000, Size16(dec.width * dec.height)}

\* The handlers of the file list and those of the queue share no state but
\* the file handed over at the start of a batch: the file list is followed up
\* to that start, with a thumbnail that cannot be decompressed.
NextJobs ==
    \/ run.pc = "idle" /\ \E c \in JobFiles : FilesAdded(c)
    \/ run.pc = "idle" /\ ParseClientSide(-1)
    \/ run.pc = "idle" /\ DeleteFiles
    \/ \E range \in FrameRanges, n \in JobIds : handleStartProcessing(range, n)
    \/ ParseStep
    \/ \E d \in JobLengths(run.decoder), e \in BOOLEAN : FrameStep(d, e)
    \/ EndStep
    \/ \E id \in JobIds : handleCancelJob(id)
    \/ handleClearCompleted

(***************************************************************************)
(* The DNG renderer: preprocessData and generateDng of Utils.cpp.          *)
(*                                                                         *)
(* Levels are floats in the code; here they are integers, with -1 for the  *)
(* values 2^useBits - 1 of a negative useBits, which lie strictly between  *)
(* -1 and 0.  The four channels carry the same black level, and one        *)
(* sample of one block is followed.  A float outside 0..65535 converted to *)
(* unsigned short is undefined: any 16-bit value may come out.             *)
(***************************************************************************)
UShortMax == 65535
LogModes ==
    {"Disabled", "KeepInput", "ReduceBy2Bit", "ReduceBy4Bit", "ReduceBy6Bit",
     "ReduceBy8Bit"}

RECURSIVE GCD(_, _)
GCD(a, b) == IF b = 0 THEN a ELSE GCD(b, a % b)

\* round(n * m / d) for n, m >= 0 and d > 0, std::round on an exact quotient
ScaleRound(n, d, m) ==
    LET g1 == GCD(n, d)
        n1 == n \div g1
        d1 == d \div g1
        g2 == GCD(m, d1)
        m2 == m \div g2
        d2 == d1 \div g2
        x == (n1 % d2) * m2
    IN (n1 \div d2) * m2 + (x \div d2) + (IF 2 * (x % d2) >= d2 THEN 1 ELSE 0)

RECURSIVE BitLength(_)
BitLength(value) == IF value = 0 THEN 0 ELSE 1 + BitLength(value \div 2)
bitsNeeded(value) == IF value = 0 THEN 1 ELSE BitLength(value)

\* static_cast<unsigned short>(x) of a float x
UShortCast(x) ==
    IF x < 0 THEN {0}
    ELSE IF x <= UShortMax THEN {x}
    ELSE {0, x % (UShortMax + 1), UShortMax}

\* std::pow(2.0f, useBits) - 1
Pow2Minus1(useBits) == IF useBits < 0 THEN -1 ELSE 2 ^ useBits - 1

EvenScale(scale) == IF scale > 1 THEN (scale \div 2) * 2 ELSE 1
cfaSize(o) == IF o.interpretAsQuadBayer THEN 2 ELSE 1
Binned(o) == cfaSize(o) > 1 /\ EvenScale(o.scale) = 2

\* srcWhiteLevel and srcBlackLevel: the frame's, the camera's, or the
\* `levels` override, times four when a Quad-Bayer block is binned.
SrcLevels(o) ==
    LET base == CASE o.levels.kind = "Static" ->
                         [white |-> o.meta.staticWhite, black |-> o.meta.staticBlack]
                  [] o.levels.kind = "override" ->
                         [white |-> o.levels.white, black |-> o.levels.black]
                  [] OTHER ->
                         [white |-> o.meta.dynamicWhiteLevel,
                          black |-> o.meta.dynamicBlackLevel]
    IN IF Binned(o)
       THEN [white |-> base.white * 4, black |-> base.black * 4]
       ELSE base

ReducedBits(logTransform) ==
    CASE logTransform = "ReduceBy2Bit" -> 2
      [] logTransform = "ReduceBy4Bit" -> 4
      [] logTransform = "ReduceBy6Bit" -> 6
      [] logTransform = "ReduceBy8Bit" -> 8
      [] OTHER -> 0

\* dstWhiteLevel and dstBlackLevel; c is what the cast of srcWhiteLevel to
\* unsigned short gave inside bitsNeeded(...).
DstLevels(o, src, c) ==
    LET bits == bitsNeeded(c)
    IN IF o.applyShadingMap
       THEN IF o.normaliseShadingMap THEN [white |-> src.white, black |-> 0]
            ELSE IF o.debugShadingMap THEN [white |-> src.white, black |-> 0]
            ELSE IF o.logTransform # "Disabled"
            THEN [white |-> Pow2Minus1(Min(16, bits - ReducedBits(o.logTransform))),
                  black |-> 0]
            ELSE [white |-> Pow2Minus1(Min(16, bits + 2)), black |-> 0]
       ELSE IF o.logTransform # "Disabled"
       THEN IF o.logTransform = "KeepInput" THEN [white |-> src.white, black |-> 0]
            ELSE [white |-> Pow2Minus1(Min(16, bits - ReducedBits(o.logTransform))),
                  black |-> 0]
       ELSE [white |-> src.white, black |-> src.black]

\* createLensShadingOpcodeList: is the list it returns non-empty?
createLensShadingOpcodeList(meta) ==
    /\ meta.lensShadingMapPlanes > 0
    /\ meta.lensShadingMapWidth > 0
    /\ meta.lensShadingMapHeight > 0
    /\ meta.lensShadingPlane0 > 0

\* if(includeOpcode && !applyShadingMap); generateDng passes includeOpcode = true
OpcodeRequested_Faulty(o) == TRUE
OpcodeRequested(o) == ~o.applyShadingMap

\* Which formula the pixel loop uses: the 2x2 block path looks at
\* debugShadingMap first, the 4x4 Quad-Bayer path does not look at it.
PixelFormula(o) ==
    IF cfaSize(o) < 2 \/ EvenScale(o.scale) > 1
    THEN IF o.debugShadingMap THEN "debug"
         ELSE IF o.logTransform = "Disabled" THEN "linear" ELSE "log"
    ELSE IF o.logTransform = "Disabled" THEN "linear" ELSE "log"

\* The source sample: four samples of a Quad-Bayer block summed into a
\* uint16_t when the block is binned.
SourceSample(o) == IF Binned(o) THEN (4 * o.sample) % (UShortMax + 1) ELSE o.sample

\* newWidth without a crop target: inOutWidth / scale, aligned down to 4
newWidth(inOutWidth, scale) == ((inOutWidth \div scale) \div 4) * 4

\* A faulty variant: the gains of the shading map are always applied.
Shade_Faulty(o) == o.gain
\* shadingMapVals[i]: 1.0 unless the shading map is applied
Shade(o) == IF o.applyShadingMap THEN o.gain ELSE <<1, 1>>

\* round(p[i] + dstBlackLevel[i]) for the debug and the linear formula
LinearCode(o, src, dst) ==
    LET shade == Shade(o)
        excess == IF PixelFormula(o) = "debug" THEN src.white - src.black
                  ELSE Max(0, SourceSample(o) - src.black)
    IN ScaleRound(excess * shade[1], (src.white - src.black) * shade[2],
                  dst.white - dst.black) + dst.black

\* round(p[i] + dstBlackLevel[i]) for the log formula: 0 and 1 of the
\* normalised input are fixed points of the curve, up to the dither, which
\* can round a zero up to one; between them the value of log2 is not
\* computed and the ends and the middle of the range stand for it.
LogCodes(o, src, dst) ==
    LET shade == Shade(o)
        n == Max(0, SourceSample(o) - src.black) * shade[1]
        d == (src.white - src.black) * shade[2]
    IN IF n = 0 THEN {0, 1}
       ELSE IF n = d THEN {dst.white}
       ELSE IF n < d THEN {1, dst.white \div 2, dst.white}
       ELSE {dst.white, dst.white + 1}

\* s[i] = std::clamp(code, 0.f, dstWhiteLevel), then stored as uint16_t.
\* std::clamp with dstWhiteLevel < 0 is undefined.
Stored(code, dstWhite) ==
    IF dstWhite < 0 THEN {0, 1, UShortMax}
    ELSE UShortCast(Max(0, Min(code, dstWhite)))

\* if (logTransform != Disabled && !(logTransform == KeepInput && !applyShadingMap))
WritesLinearizationTable(o) ==
    /\ o.logTransform # "Disabled"
    /\ ~(o.logTransform = "KeepInput" /\ ~o.applyShadingMap)

\* linearizationTable[i]: the ends of the table; the entries between them
\* are not computed.
TableEntry(i, tableSize) ==
    IF i = 0 THEN 0
    ELSE IF i = tableSize - 1 THEN UShortMax
    ELSE UShortMax \div 2

NoRender ==
    [done |-> FALSE, whiteLevel |-> 0, blackLevel |-> 0, sample |-> 0,
     formula |-> "none", baked |-> FALSE, opcodeList2 |-> FALSE,
     linearizationTable |-> FALSE, tableSize |-> 0, tagWhiteLevel |-> 0,
     tagBlackLevel |-> 0, width |-> 0, tableFirst |-> 0, tableLast |-> 0]

NoLensShadingMap ==
    [lensShadingMapPlanes |-> 0, lensShadingMapWidth |-> 0,
     lensShadingMapHeight |-> 0, lensShadingPlane0 |-> 0]
LensShadingMaps ==
    { NoLensShadingMap,
      [lensShadingMapPlanes |-> 4, lensShadingMapWidth |-> 2,
       lensShadingMapHeight |-> 2, lensShadingPlane0 |-> 4],
      [lensShadingMapPlanes |-> 4, lensShadingMapWidth |-> 0,
       lensShadingMapHeight |-> 2, lensShadingPlane0 |-> 4],
      [lensShadingMapPlanes |-> 4, lensShadingMapWidth |-> 2,
       lensShadingMapHeight |-> 2, lensShadingPlane0 |-> 0] }
FrameLevels ==
    [dynamicWhiteLevel |-> 1023, dynamicBlackLevel |-> 64,
     staticWhite |-> 4095, staticBlack |-> 256]
FrameMetas == {FrameLevels @@ m : m \in LensShadingMaps}
LevelsInputs ==
    { [kind |-> "", white |-> 0, black |-> 0],
      [kind |-> "Static", white |-> 0, black |-> 0],
      [kind |-> "override", white |-> 70000, black |-> 0],
      [kind |-> "override", white |-> 100, black |-> 0],
      [kind |-> "override", white |-> 200, black |-> 0] }
Samples == {0, 64, 600, 65535}
Gains == {<<1, 1>>, <<3, 2>>}
DraftScales == {1, 2}
FrameWidths == {10, 12}
RenderInputs ==
    [applyShadingMap : BOOLEAN, normaliseShadingMap : BOOLEAN,
     debugShadingMap : BOOLEAN, logTransform : LogModes,
     interpretAsQuadBayer : BOOLEAN, scale : DraftScales, levels : LevelsInputs,
     meta : FrameMetas, sample : Samples, gain : Gains, width : FrameWidths]

\* The frame and the settings generateDng is called with.
InitRender ==
    /\ rIn \in RenderInputs
    /\ rOut = NoRender

\* No frame is rendered.
RenderAtRest ==
    /\ rIn = [applyShadingMap |-> FALSE, normaliseShadingMap |-> FALSE,
              debugShadingMap |-> FALSE, logTransform |-> "KeepInput",
              interpretAsQuadBayer |-> FALSE, scale |-> 1,
              levels |-> [kind |-> "", white |-> 0, black |-> 0],
              meta |-> FrameLevels @@ NoLensShadingMap, sample |-> 0,
              gain |-> <<1, 1>>, width |-> 12]
    /\ rOut = NoRender

\* generateDng: preprocessData, then the tags.  c1 and c2 are what the two
\* casts of the white level give, stored what the sample becomes.
generateDng ==
    /\ ~rOut.done
    /\ \E c1 \in UShortCast(SrcLevels(rIn).white) :
          LET o == rIn
              src == SrcLevels(o)
              dst == DstLevels(o, src, c1)
              codes == IF dst.white < 0 THEN {0}
                       ELSE IF PixelFormula(o) = "log" THEN LogCodes(o, src, dst)
                       ELSE {LinearCode(o, src, dst)}
              opcode == OpcodeRequested(o) /\ createLensShadingOpcodeList(o.meta)
              table == WritesLinearizationTable(o)
          IN \E c2 \in UShortCast(dst.white), code \in codes :
                \E stored \in Stored(code, dst.white) :
                   rOut' = [done |-> TRUE, whiteLevel |-> c2, blackLevel |-> dst.black,
                            sample |-> stored, formula |-> PixelFormula(o),
                            baked |-> o.applyShadingMap, opcodeList2 |-> opcode,
                            linearizationTable |-> table,
                            tableSize |-> IF table THEN c2 + 1 ELSE 0,
                            tagWhiteLevel |-> IF table THEN 65534 ELSE c2,
                            tagBlackLevel |-> IF table THEN 0 ELSE dst.black,
                            width |-> newWidth(o.width, EvenScale(o.scale)),
                            tableFirst |-> IF table THEN TableEntry(0, c2 + 1) ELSE 0,
                            tableLast |-> IF table THEN TableEntry(c2, c2 + 1) ELSE 0]
    /\ UNCHANGED rIn
    /\ UNCHANGED <<uploadVars, jobVars, flightVars, packVars, encVars, fpsVars, laterVars>>

NextRender == generateDng

(***************************************************************************)
(* Bit packing.  The packers of Utils.cpp turn a buffer of 16-bit samples  *)
(* into a byte stream, row by row; unpackBits of the decoder turns a byte  *)
(* stream into a Uint16Array.  A row here is four samples, the group size  *)
(* of the 10- and 14-bit packers.                                          *)
(***************************************************************************)
RowWidth == 4
PackWidths == {8, 10, 12, 14, 16}

RECURSIVE BitOr(_, _)
BitOr(a, b) ==
    IF a = 0 THEN b
    ELSE IF b = 0 THEN a
    ELSE (IF a % 2 = 1 \/ b % 2 = 1 THEN 1 ELSE 0) + 2 * BitOr(a \div 2, b \div 2)

\* A store into a uint8_t.
Byte(x) == x % 256

encodeTo10Bit(p) ==
    << Byte(p[1] \div 4),
       Byte(BitOr((p[1] % 4) * 64, p[2] \div 16)),
       Byte(BitOr((p[2] % 16) * 16, p[3] \div 64)),
       Byte(BitOr((p[3] % 64) * 4, p[4] \div 256)),
       p[4] % 256 >>

\* One pass of the inner loop: two samples into three bytes.
Pair12(p0, p1) ==
    << Byte(p0 \div 16), Byte(BitOr((p0 % 16) * 16, p1 \div 256)), p1 % 256 >>

encodeTo12Bit(p) == Pair12(p[1], p[2]) \o Pair12(p[3], p[4])

encodeTo14Bit(p) ==
    << Byte(p[1] \div 64),
       Byte(BitOr((p[1] % 64) * 4, p[2] \div 4096)),
       (p[2] \div 16) % 256,
       Byte(BitOr((p[2] % 16) * 16, p[3] \div 1024)),
       (p[3] \div 4) % 256,
       Byte(BitOr((p[3] % 4) * 64, p[4] \div 256)),
       p[4] % 256 >>

encodeTo8Bit(p) == [i \in 1..Len(p) |-> p[i] % 256]

\* encodeBits = 16: the buffer is left as it is, little-endian 16-bit samples.
Keep16Bit(p) ==
    [k \in 1..(2 * Len(p)) |->
        IF k % 2 = 1 THEN p[(k + 1) \div 2] % 256 ELSE p[k \div 2] \div 256]

\* The packer generateDng picks for encodeBits.
Pack(bits, p) ==
    CASE bits = 8 -> encodeTo8Bit(p)
      [] bits = 10 -> encodeTo10Bit(p)
      [] bits = 12 -> encodeTo12Bit(p)
      [] bits = 14 -> encodeTo14Bit(p)
      [] OTHER -> Keep16Bit(p)

\* A store into a Uint16Array.
U16(x) == x % 65536
Pow2(n) == IF n <= 0 THEN 1 ELSE 2 ^ n
Zeros(n) == [i \in 1..n |-> 0]

\* packed[j] with j counted from 0.
At(packed, j) == packed[j + 1]

RECURSIVE Unpack10(_, _, _, _, _)
Unpack10(packed, pixelCount, shift, i, result) ==
    LET j == (i \div 4) * 5
    IN IF ~(i < pixelCount - 3 /\ j < Len(packed) - 4) THEN result
       ELSE Unpack10(packed, pixelCount, shift, i + 4,
                [result EXCEPT
                   ![i + 1] = U16(BitOr(At(packed, j) * 4, At(packed, j + 1) \div 64)
                                  * Pow2(shift)),
                   ![i + 2] = U16(BitOr((At(packed, j + 1) % 64) * 16,
                                        At(packed, j + 2) \div 16) * Pow2(shift)),
                   ![i + 3] = U16(BitOr((At(packed, j + 2) % 16) * 64,
                                        At(packed, j + 3) \div 4) * Pow2(shift)),
                   ![i + 4] = U16(BitOr((At(packed, j + 3) % 4) * 256,
                                        At(packed, j + 4)) * Pow2(shift))])

RECURSIVE Unpack12(_, _, _, _, _)
Unpack12(packed, pixelCount, shift, i, result) ==
    LET j == (i \div 2) * 3
    IN IF ~(i < pixelCount - 1 /\ j < Len(packed) - 2) THEN result
       ELSE Unpack12(packed, pixelCount, shift, i + 2,
                [result EXCEPT
                   ![i + 1] = U16(BitOr(At(packed, j) * 16, At(packed, j + 1) \div 16)
                                  * Pow2(shift)),
                   ![i + 2] = U16(BitOr((At(packed, j + 1) % 16) * 256,
                                        At(packed, j + 2)) * Pow2(shift))])

RECURSIVE UnpackView(_, _, _, _)
\* i < Math.min(pixelCount, packed.length / 2); getUint16 throws a RangeError
\* when the two bytes do not lie within the view.
UnpackView(packed, pixelCount, i, result) ==
    IF ~(i < pixelCount /\ 2 * i < Len(packed)) THEN [threw |-> FALSE, samples |-> result]
    ELSE IF 2 * i + 2 > Len(packed) THEN [threw |-> TRUE, samples |-> <<>>]
    ELSE UnpackView(packed, pixelCount, i + 1,
             [result EXCEPT ![i + 1] = At(packed, 2 * i) + 256 * At(packed, 2 * i + 1)])

unpackBits(packed, pixelCount, bits) ==
    LET shift == 16 - bits
    IN IF bits = 10
       THEN [threw |-> FALSE,
             samples |-> Unpack10(packed, pixelCount, shift, 0, Zeros(pixelCount))]
       ELSE IF bits = 12
       THEN [threw |-> FALSE,
             samples |-> Unpack12(packed, pixelCount, shift, 0, Zeros(pixelCount))]
       ELSE UnpackView(packed, pixelCount, 0, Zeros(pixelCount))

\* The sample values offered at a width: the ends of the range, a value
\* with a single low bit and one with alternating bits.
SampleValues(bits) == {0, 1, Pow2(bits) - 1, 21845 % Pow2(bits)}
PackInputs ==
    {[bits |-> b, row |-> r] : b \in PackWidths, r \in {<<0, 0, 0, 0>>}} \cup
    UNION {{[bits |-> b, row |-> <<v1, v2, v3, v4>>] :
               v1 \in SampleValues(b), v2 \in SampleValues(b),
               v3 \in SampleValues(b), v4 \in SampleValues(b)} : b \in PackWidths}

NoPack == [pc |-> "none", bytes |-> <<>>, threw |-> FALSE, samples |-> <<>>]
PackAtRest == pkIn = [bits |-> 16, row |-> <<0, 0, 0, 0>>] /\ pkOut = NoPack
InitPack == pkIn \in PackInputs /\ pkOut = NoPack

PackRow ==
    /\ pkOut.pc = "none"
    /\ pkOut' = [NoPack EXCEPT !.pc = "packed", !.bytes = Pack(pkIn.bits, pkIn.row)]
    /\ UNCHANGED pkIn
    /\ UNCHANGED <<uploadVars, jobVars, renderVars, flightVars, encVars, fpsVars, laterVars>>

UnpackRow ==
    /\ pkOut.pc = "packed"
    /\ LET u == unpackBits(pkOut.bytes, RowWidth, pkIn.bits)
       IN pkOut' = [pkOut EXCEPT !.pc = "unpacked", !.threw = u.threw,
                                 !.samples = u.samples]
    /\ UNCHANGED pkIn
    /\ UNCHANGED <<uploadVars, jobVars, renderVars, flightVars, encVars, fpsVars, laterVars>>

NextPack == PackRow \/ UnpackRow

(***************************************************************************)
(* DngEncoder.encode of the browser pipeline.  A DNG file is kept as the   *)
(* values written into it: the tags that depend on the call and the raw    *)
(* strip.  The wall clock counts half seconds from local midnight.         *)
(***************************************************************************)
MaxClock == 6      \* how far the wall clock runs
MaxEncodes == 2    \* encode() calls for the same frame

\* formatDateTime: the date, then getHours(), getMinutes(), getSeconds().
formatDateTime(now) ==
    LET secs == now \div 2
    IN <<(secs \div 3600) % 24, (secs \div 60) % 60, secs % 60>>

\* metadata.whiteLevel || 65535
TagWhiteLevel(frame) == IF frame.whiteLevel # 0 THEN frame.whiteLevel ELSE UShortMax

buildTags(frame, now) ==
    [ImageWidth |-> frame.width, ImageLength |-> frame.height,
     StripByteCounts |-> 2 * Len(frame.bayerData),
     DateTime |-> formatDateTime(now),
     WhiteLevel |-> TagWhiteLevel(frame)]

encode(frame, now) == [tags |-> buildTags(frame, now), strip |-> frame.bayerData]

EncodeFrames ==
    {[width |-> 2, height |-> 2, whiteLevel |-> w, bayerData |-> <<v, v, v, v>>] :
        w \in {0, 1023}, v \in {0, 1023}}

EncodeAtRest ==
    /\ clock = 0
    /\ encIn = [width |-> 2, height |-> 2, whiteLevel |-> 0, bayerData |-> <<0, 0, 0, 0>>]
    /\ encOut = <<>>
InitEncode == clock = 0 /\ encIn \in EncodeFrames /\ encOut = <<>>

Tick ==
    /\ clock < MaxClock
    /\ clock' = clock + 1
    /\ UNCHANGED <<encIn, encOut>>
    /\ UNCHANGED <<uploadVars, jobVars, renderVars, flightVars, packVars, fpsVars, laterVars>>

EncodeFrame ==
    /\ Len(encOut) < MaxEncodes
    /\ encOut' = Append(encOut, encode(encIn, clock))
    /\ UNCHANGED <<clock, encIn>>
    /\ UNCHANGED <<uploadVars, jobVars, renderVars, flightVars, packVars, fpsVars, laterVars>>

NextEncode == Tick \/ EncodeFrame

(***************************************************************************)
(* calculateFpsFromTimestamps.  Timestamps are integers here.  The raw     *)
(* rate is the exact fraction unit / medianDelta, kept in lowest terms;    *)
(* rates are returned in hundredths of a frame per second.                 *)
(***************************************************************************)
commonRates == <<1800, 2400, 2500, 2997, 3000, 4800, 5000, 5994, 6000, 12000>>
DefaultFps == 2400

RECURSIVE PositiveDeltas(_, _, _)
PositiveDeltas(ts, i, deltas) ==
    IF i > Len(ts) THEN deltas
    ELSE PositiveDeltas(ts, i + 1,
             IF ts[i] - ts[i - 1] > 0 THEN Append(deltas, ts[i] - ts[i - 1]) ELSE deltas)

\* deltas.sort((a, b) => a - b)[k], k counted from 0
SortedAt(deltas, k) ==
    CHOOSE v \in {deltas[i] : i \in DOMAIN deltas} :
        /\ Cardinality({i \in DOMAIN deltas : deltas[i] < v}) <= k
        /\ Cardinality({i \in DOMAIN deltas : deltas[i] <= v}) > k

\* The numerator of rawFps for a median delta: ns, us, ms or s.
UnitOf(medianDelta) ==
    IF medianDelta > 10000000 THEN 1000000000
    ELSE IF medianDelta > 10000 THEN 1000000
    ELSE IF medianDelta > 10 THEN 1000
    ELSE 1

RawFps(medianDelta) ==
    LET g == GCD(UnitOf(medianDelta), medianDelta)
    IN [num |-> UnitOf(medianDelta) \div g, den |-> medianDelta \div g]

\* Math.abs(rawFps - rate) / rate < 0.05, rate in hundredths
WithinFivePercent(raw, rate) ==
    LET diff == 100 * raw.num - rate * raw.den
    IN (IF diff < 0 THEN -diff ELSE diff) <= (rate * raw.den - 1) \div 20

RECURSIVE SnapFrom(_, _)
\* for (const rate of commonRates) if (...) return rate; 0 when none is close
SnapFrom(raw, k) ==
    IF k > Len(commonRates) THEN 0
    ELSE IF WithinFivePercent(raw, commonRates[k]) THEN commonRates[k]
    ELSE SnapFrom(raw, k + 1)

\* Math.round(rawFps)
RoundFps(raw) == (2 * raw.num + raw.den) \div (2 * raw.den)

calculateFpsFromTimestamps(ts) ==
    IF Len(ts) < 2 THEN DefaultFps
    ELSE LET deltas == PositiveDeltas(ts, 2, <<>>)
         IN IF Len(deltas) = 0 THEN DefaultFps
            ELSE LET raw == RawFps(SortedAt(deltas, Len(deltas) \div 2))
                     snapped == SnapFrom(raw, 1)
                     result == RoundFps(raw)
                 IN IF snapped # 0 THEN snapped
                    ELSE IF result > 0 /\ result < 1000 THEN 100 * result
                    ELSE DefaultFps

\* Frame intervals offered, in microseconds: 18, 24, 25, 29.97, 30, 31.25,
\* 48, 50, 59.94, 60, 120 and 10 frames per second, and a repeated timestamp.
MicroDeltas ==
    {55556, 41667, 40000, 33367, 33333, 32000, 20833, 20000, 16683, 16667, 8333,
     100000, 0}
\* The same intervals in nanoseconds, microseconds and milliseconds.
DeltaSets ==
    {{1000 * d : d \in MicroDeltas}, MicroDeltas, {d \div 1000 : d \in MicroDeltas}}
MaxDeltas == 2     \* frame intervals in a timestamp vector

RECURSIVE Cumulate(_, _)
Cumulate(ts, deltas) ==
    IF deltas = <<>> THEN ts
    ELSE Cumulate(Append(ts, ts[Len(ts)] + Head(deltas)), Tail(deltas))

TimestampVectors ==
    {<<>>} \cup
    UNION {UNION {{Cumulate(<<0>>, ds) : ds \in [1..n -> D]} : n \in 0..MaxDeltas} :
              D \in DeltaSets}

NoFps == [done |-> FALSE, fps |-> 0]
FpsAtRest == fpsIn = <<>> /\ fpsOut = NoFps
InitFps == fpsIn \in TimestampVectors /\ fpsOut = NoFps

InferFps ==
    /\ ~fpsOut.done
    /\ fpsOut' = [done |-> TRUE, fps |-> calculateFpsFromTimestamps(fpsIn)]
    /\ UNCHANGED fpsIn
    /\ UNCHANGED <<uploadVars, jobVars, renderVars, flightVars, packVars, encVars, laterVars>>

NextFps == InferFps

(***************************************************************************)
(* The time code of generateDng.  The frame rate is a float in the code;   *)
(* here it is kept in hundredths of a frame per second, and the quotient   *)
(* frameNumber / recordingFps is taken as exact.                           *)
(***************************************************************************)
MaxFrameNumber == 59
FrameNumbers == (0..MaxFrameNumber) \cup {1439, 1440, 86400, 3456000}
Fps100 == {100, 2400, 2997, 6000}

RECURSIVE BitAnd(_, _)
BitAnd(a, b) ==
    IF a = 0 \/ b = 0 THEN 0
    ELSE 2 * BitAnd(a \div 2, b \div 2) + (IF a % 2 = 1 /\ b % 2 = 1 THEN 1 ELSE 0)

\* (uint8_t) (((value / 10) << 4) | (value % 10)); value % 10 is below 16
ToTimecodeByte(value) == ((value \div 10) * 16 + (value % 10)) % 256

\* The eight bytes of the TimeCode tag.
TimeCode(frameNumber, fps100) ==
    LET time == (frameNumber * 100) \div fps100      \* floor(time)
        hours == time \div 3600
        minutes == (time \div 60) % 60
        seconds == time % 60
        frames == IF fps100 > 100 THEN frameNumber % ((fps100 + 50) \div 100) ELSE 0
    IN <<BitAnd(ToTimecodeByte(frames), 63), BitAnd(ToTimecodeByte(seconds), 127),
         BitAnd(ToTimecodeByte(minutes), 127), BitAnd(ToTimecodeByte(hours), 63),
         0, 0, 0, 0>>

NoTimeCode == [done |-> FALSE, timeCode |-> <<>>]
TimecodeAtRest == tcIn = [frameNumber |-> 0, fps100 |-> 2400] /\ tcOut = NoTimeCode
InitTc == tcIn \in [frameNumber : FrameNumbers, fps100 : Fps100] /\ tcOut = NoTimeCode

SetTimeCode ==
    /\ ~tcOut.done
    /\ tcOut' = [done |-> TRUE, timeCode |-> TimeCode(tcIn.frameNumber, tcIn.fps100)]
    /\ UNCHANGED tcIn
    /\ UNCHANGED <<earlierVars, cfaVars, loopVars, winVars, levelVars, inPlaceVars>>

NextTimecode == SetTimeCode

(***************************************************************************)
(* The CFAPattern tag: DngEncoder.getCfaPatternBytes of the web client and *)
(* the sensorArrangement test of generateDng.  An arrangement is the       *)
(* sequence of its four characters.                                        *)
(***************************************************************************)
Arrangements == [1..4 -> {"R", "G", "B"}] \cup [1..4 -> {"r", "g", "b"}]

\* colorMap: Record<string, number> = { R: 0, G: 1, B: 2 }; -1 is undefined
colorMap(c) ==
    CASE c = "R" -> 0
      [] c = "G" -> 1
      [] c = "B" -> 2
      [] OTHER -> -1

\* x || 1: undefined and 0 are falsy
OrOne(x) == IF x = -1 \/ x = 0 THEN 1 ELSE x

\* pattern.split("").map((c) => colorMap[c] || 1)
getCfaPatternBytes(pattern) == [i \in DOMAIN pattern |-> OrOne(colorMap(pattern[i]))]

\* generateDng: cfa by cameraConfiguration.sensorArrangement, or the throw
sensorArrangementCfa(pattern) ==
    CASE pattern = <<"r", "g", "g", "b">> -> [threw |-> FALSE, bytes |-> <<0, 1, 1, 2>>]
      [] pattern = <<"b", "g", "g", "r">> -> [threw |-> FALSE, bytes |-> <<2, 1, 1, 0>>]
      [] pattern = <<"g", "r", "b", "g">> -> [threw |-> FALSE, bytes |-> <<1, 0, 2, 1>>]
      [] pattern = <<"g", "b", "r", "g">> -> [threw |-> FALSE, bytes |-> <<1, 2, 0, 1>>]
      [] OTHER -> [threw |-> TRUE, bytes |-> <<>>]

NoCfa == [done |-> FALSE, threw |-> FALSE, bytes |-> <<>>]
CfaAtRest ==
    cfaIn = [encoder |-> "DngEncoder", pattern |-> <<"R", "G", "G", "B">>] /\ cfaOut = NoCfa
InitCfa ==
    cfaIn \in [encoder : {"DngEncoder", "generateDng"}, pattern : Arrangements] /\ cfaOut = NoCfa

WriteCfaPattern ==
    /\ ~cfaOut.done
    /\ cfaOut' = IF cfaIn.encoder = "DngEncoder"
                 THEN [done |-> TRUE, threw |-> FALSE,
                       bytes |-> getCfaPatternBytes(cfaIn.pattern)]
                 ELSE [done |-> TRUE] @@ sensorArrangementCfa(cfaIn.pattern)
    /\ UNCHANGED cfaIn
    /\ UNCHANGED <<earlierVars, tcVars, loopVars, winVars, levelVars, inPlaceVars>>

NextCfa == WriteCfaPattern

(***************************************************************************)
(* The pixel loop of preprocessData: which source samples a block reads    *)
(* and which output samples it writes.  A source sample is named by its    *)
(* <<row, column>>, an output sample by its index in dstData.              *)
(***************************************************************************)
InputDims == {6, 8, 9, 16}
CropTargets == {<<0, 0>>, <<8, 8>>, <<6, 12>>, <<16, 8>>}
LoopScales == {1, 2, 3, 4}

\* newWidth and newHeight: the crop target when it fits, divided by the
\* scale and aligned down to 4
NewSize(inOut, crop, scale) ==
    IF crop[1] > 0 /\ crop[2] > 0 /\ crop[1] <= inOut[1] /\ crop[2] <= inOut[2]
    THEN <<newWidth(crop[1], scale), newWidth(crop[2], scale)>>
    ELSE <<newWidth(inOut[1], scale), newWidth(inOut[2], scale)>>

\* 2 * (scale < 2 ? cfaSize : 1)
LoopStep(cfa, scale) == 2 * (IF scale < 2 THEN cfa ELSE 1)

\* if (cfaSize < 2 | scale > 1): the 2x2 block path
SmallBlock(cfa, scale) == cfa < 2 \/ scale > 1

\* The source samples of the block at (x, y).
BlockReads(cfa, scale, x, y) ==
    LET srcY == y * scale
        srcX == x * scale
    IN IF SmallBlock(cfa, scale) /\ ~(cfa = 2 /\ scale = 2)
       THEN {<<srcY + r, srcX + c>> : r \in {0, cfa}, c \in {0, cfa}}
       ELSE {<<srcY + r, srcX + c>> : r \in 0..3, c \in 0..3}

\* The indices of dstData the block writes, in the order of the code.
BlockWrites(cfa, scale, dstOffset, w) ==
    IF SmallBlock(cfa, scale)
    THEN <<dstOffset, dstOffset + 1, dstOffset + w, dstOffset + w + 1>>
    ELSE <<dstOffset, dstOffset + 1, dstOffset + w, dstOffset + w + 1,
           dstOffset + 2, dstOffset + 3, dstOffset + w + 2, dstOffset + w + 3,
           dstOffset + w * 2, dstOffset + w * 2 + 1, dstOffset + w * 3,
           dstOffset + w * 3 + 1, dstOffset + w * 2 + 2, dstOffset + w * 2 + 3,
           dstOffset + w * 3 + 2, dstOffset + w * 3 + 3>>

\* dstOffset += 2 in the 2x2 path, 2 * cfaSize in the 4x4 path
BlockAdvance(cfa, scale) == IF SmallBlock(cfa, scale) THEN 2 ELSE 2 * cfa

\* A faulty variant: the end of a row skips one output row in every mode.
RowSkip_Faulty(cfa, scale) == 1
\* dstOffset += newWidth * (cfaSize == 2 && scale == 1 ? 3 : 1)
RowSkip(cfa, scale) == IF cfa = 2 /\ scale = 1 THEN 3 ELSE 1

LoopInputs ==
    [size : InputDims \X InputDims, crop : CropTargets, scale : LoopScales,
     interpretAsQuadBayer : BOOLEAN]
LoopStart ==
    [pc |-> "loop", x |-> 0, y |-> 0, dstOffset |-> 0, reads |-> {},
     written |-> {}, twice |-> {}]
LoopAtRest ==
    /\ lpIn = [size |-> <<8, 8>>, crop |-> <<0, 0>>, scale |-> 1,
               interpretAsQuadBayer |-> FALSE]
    /\ lp = [LoopStart EXCEPT !.pc = "none"]
InitLoop == lpIn \in LoopInputs /\ lp = LoopStart

\* One pass of the inner loop, with the end of the row when x runs out.
Block ==
    LET scale == EvenScale(lpIn.scale)
        cfa == cfaSize(lpIn)
        new == NewSize(lpIn.size, lpIn.crop, scale)
        w == BlockWrites(cfa, scale, lp.dstOffset, new[1])
        ws == {w[i] : i \in DOMAIN w}
        x == lp.x + LoopStep(cfa, scale)
        d == lp.dstOffset + BlockAdvance(cfa, scale)
    IN /\ lp.pc = "loop"
       /\ lp.y < new[2] /\ lp.x < new[1]
       /\ lp' = [pc |-> "loop",
                 x |-> IF x < new[1] THEN x ELSE 0,
                 y |-> IF x < new[1] THEN lp.y ELSE lp.y + LoopStep(cfa, scale),
                 dstOffset |-> IF x < new[1] THEN d
                               ELSE d + new[1] * RowSkip(cfa, scale),
                 reads |-> BlockReads(cfa, scale, lp.x, lp.y),
                 written |-> lp.written \cup ws,
                 twice |-> lp.twice \cup (lp.written \cap ws)]
       /\ UNCHANGED lpIn
       /\ UNCHANGED <<earlierVars, tcVars, cfaVars, winVars, levelVars, inPlaceVars>>

\* The outer loop is over.
LoopEnd ==
    LET new == NewSize(lpIn.size, lpIn.crop, EvenScale(lpIn.scale))
    IN /\ lp.pc = "loop"
       /\ ~(lp.y < new[2] /\ lp.x < new[1])
       /\ lp' = [lp EXCEPT !.pc = "done", !.reads = {}]
       /\ UNCHANGED lpIn
       /\ UNCHANGED <<earlierVars, tcVars, cfaVars, winVars, levelVars, inPlaceVars>>

NextLoop == Block \/ LoopEnd

(***************************************************************************)
(* The main window: the check boxes behind the shading-map options, the    *)
(* draft box and the levels combo box.  A check box that changes emits     *)
(* checkStateChanged, whose slot runs before setChecked returns: the       *)
(* handlers nest.  win.w holds the widgets and the members, win.passed the *)
(* settings last given to updateOptions for each mounted file, win.timers  *)
(* the single-shot timers not yet fired, win.stale whether a handler ever  *)
(* returned with settings passed that the widgets no longer show.          *)
(***************************************************************************)
MaxTimers == 8
NestedTimers == 4       \* one click sets at most four timers
MountIds == {1, 2}
CheckBoxes == {"draft", "vignette", "scaleRaw", "debugVignette", "vignetteOnlyColor"}
LevelsTexts == {"Dynamic", "Static"}
NoSettings == [options |-> {"none"}, levels |-> ""]

OptionOf(box) ==
    CASE box = "draft" -> "DRAFT"
      [] box = "vignette" -> "APPLY_VIGNETTE_CORRECTION"
      [] box = "scaleRaw" -> "NORMALIZE_SHADING_MAP"
      [] box = "debugVignette" -> "DEBUG_SHADING_MAP"
      [] OTHER -> "VIGNETTE_ONLY_COLOR"

getRenderOptions(w) == {OptionOf(box) : box \in {b \in CheckBoxes : w.checked[b]}}

\* motioncam::RenderSettings settings(getRenderOptions(*ui), ..., mLevels, ...)
RenderSettings(w) == [options |-> getRenderOptions(w), levels |-> w.mLevels]

\* for each mounted file: updateOptions(mountId, settings)
UpdateAll(built) == [f \in MountIds |-> built]

RECURSIVE onRenderSettingsChanged(_)
RECURSIVE updateUi(_)

\* setChecked(v): the signal is emitted, and its slot run, when the state changes
SetChecked(st, box, v) ==
    IF st.w.checked[box] = v THEN st
    ELSE onRenderSettingsChanged([st EXCEPT !.w.checked[box] = v])

\* The statements of updateUi that change widgets: scale raw, debug and
\* colour-only follow vignette correction; debug is off while scale raw is on.
updateUi(st) ==
    IF st.w.checked["vignette"]
    THEN IF st.w.checked["scaleRaw"] THEN SetChecked(st, "debugVignette", FALSE) ELSE st
    ELSE SetChecked(SetChecked(SetChecked(st, "scaleRaw", FALSE), "debugVignette", FALSE),
                    "vignetteOnlyColor", FALSE)

\* The settings are built first, then updateUi runs, then they are passed on
\* and the label refresh is scheduled.
onRenderSettingsChanged(st) ==
    LET built == RenderSettings(st.w)
        u == updateUi(st)
    IN [w |-> u.w, passed |-> UpdateAll(built), timers |-> u.timers + 1,
        stale |-> u.stale \/ built # RenderSettings(u.w)]

\* A faulty variant: the refresh rewrites the labels only.
Refresh_Faulty(st) == st.passed
\* updateFpsLabels: updateOptions for every mounted file with fresh settings
Refresh(st) == UpdateAll(RenderSettings(st.w))

\* setEnabled as the last updateUi left it
Enabled(w, box) ==
    CASE box = "scaleRaw" -> w.checked["vignette"]
      [] box = "debugVignette" -> w.checked["vignette"] /\ ~w.checked["scaleRaw"]
      [] box = "vignetteOnlyColor" -> w.checked["vignette"]
      [] OTHER -> TRUE

\* The widgets after restoreSettings and its updateUi, before the slots are
\* connected.
RestoredWidgets ==
    {w \in [checked : [CheckBoxes -> BOOLEAN], levelsText : LevelsTexts,
            mLevels : LevelsTexts] :
        /\ w.mLevels = w.levelsText
        /\ \A box \in CheckBoxes : w.checked[box] => Enabled(w, box)}

WindowAtRest ==
    win = [w |-> [checked |-> [box \in CheckBoxes |-> FALSE], levelsText |-> "Dynamic",
                  mLevels |-> "Dynamic"],
           passed |-> UpdateAll(NoSettings), timers |-> 0, stale |-> FALSE]
InitWindow ==
    win \in [w : RestoredWidgets, passed : {UpdateAll(NoSettings)}, timers : {0},
             stale : {FALSE}]

\* The user clicks an enabled check box.
ClickBox(box) ==
    /\ Enabled(win.w, box)
    /\ win.timers + NestedTimers <= MaxTimers
    /\ win' = onRenderSettingsChanged(
                  [win EXCEPT !.w.checked[box] = ~win.w.checked[box]])
    /\ UNCHANGED <<earlierVars, tcVars, cfaVars, loopVars, levelVars, inPlaceVars>>

\* The user picks another text in the levels combo box: onLevelsChanged.
PickLevels(text) ==
    /\ text # win.w.levelsText
    /\ win.timers + NestedTimers <= MaxTimers
    /\ win' = onRenderSettingsChanged(
                  [win EXCEPT !.w.levelsText = text, !.w.mLevels = text])
    /\ UNCHANGED <<earlierVars, tcVars, cfaVars, loopVars, levelVars, inPlaceVars>>

\* A single-shot timer fires: updateFpsLabels.
updateFpsLabels ==
    /\ win.timers > 0
    /\ win' = [win EXCEPT !.passed = Refresh(win), !.timers = win.timers - 1]
    /\ UNCHANGED <<earlierVars, tcVars, cfaVars, loopVars, levelVars, inPlaceVars>>

NextWindow ==
    \/ \E box \in CheckBoxes : ClickBox(box)
    \/ \E text \in LevelsTexts : PickLevels(text)
    \/ updateFpsLabels

(***************************************************************************)
(* The levels override of preprocessData.  The string is a sequence of     *)
(* characters; a number is kept as its integer part and the digits after   *)
(* the point, so that two parsed values are equal exactly when the texts   *)
(* denote the same number.                                                 *)
(***************************************************************************)
MaxLevelsLen == 5
LevelChars == {"1", "5", ".", ",", "/", "x"}
DigitChars == {"1", "5"}
StaticText == <<"S", "t", "a", "t", "i", "c">>
Whole(n) == [int |-> n, frac |-> <<>>]
FrameDynamicLevels ==
    [white |-> Whole(1023), black |-> [i \in 1..4 |-> Whole(64)]]
CameraLevels ==
    [white |-> Whole(4095), black |-> [i \in 1..4 |-> Whole(256)]]

RECURSIVE Find(_, _, _)
\* std::string::find(c, start): the first position at or after start, 0 for npos
Find(str, c, start) ==
    IF start > Len(str) THEN 0
    ELSE IF str[start] = c THEN start
    ELSE Find(str, c, start + 1)

RECURSIVE DigitRun(_, _)
\* how many digits stand at position i and after it
DigitRun(str, i) ==
    IF i > Len(str) \/ str[i] \notin DigitChars THEN 0
    ELSE 1 + DigitRun(str, i + 1)

RECURSIVE IntOf(_)
IntOf(digits) ==
    IF digits = <<>> THEN 0
    ELSE IntOf(SubSeq(digits, 1, Len(digits) - 1)) * 10
         + (IF digits[Len(digits)] = "1" THEN 1 ELSE 5)

\* std::stoul: the leading digits; std::invalid_argument when there are none
stoul(str) ==
    LET n == DigitRun(str, 1)
    IN [ok |-> n > 0, value |-> Whole(IntOf(SubSeq(str, 1, n)))]

\* std::stof: digits, a point, digits; at least one digit
stof(str) ==
    LET n == DigitRun(str, 1)
        point == n + 1 <= Len(str) /\ str[n + 1] = "."
        m == IF point THEN DigitRun(str, n + 2) ELSE 0
    IN [ok |-> n + m > 0,
        value |-> [int |-> IntOf(SubSeq(str, 1, n)),
                   frac |-> SubSeq(str, n + 2, n + 1 + m)]]

\* if (s.find('.') != npos) std::stof(s) else std::stoul(s)
ParseNumber(str) == IF Find(str, ".", 1) # 0 THEN stof(str) ELSE stoul(str)

RECURSIVE BlackValues(_, _, _, _)
\* The loop over the comma-separated black levels; ok is false when a value
\* throws.
BlackValues(blackLevelStr, start, valueIndex, values) ==
    IF ~(start <= Len(blackLevelStr) /\ valueIndex < 4)
    THEN [ok |-> TRUE, values |-> values]
    ELSE LET found == Find(blackLevelStr, ",", start)
             commaPos == IF found = 0 THEN Len(blackLevelStr) + 1 ELSE found
             parsed == ParseNumber(SubSeq(blackLevelStr, start, commaPos - 1))
         IN IF ~parsed.ok THEN [ok |-> FALSE, values |-> values]
            ELSE BlackValues(blackLevelStr, commaPos + 1, valueIndex + 1,
                             [values EXCEPT ![valueIndex + 1] = parsed.value])

\* The black part of the override.
ParseBlack(blackLevelStr) ==
    IF Find(blackLevelStr, ",", 1) # 0
    THEN BlackValues(blackLevelStr, 1, 0, [i \in 1..4 |-> Whole(0)])
    ELSE LET parsed == ParseNumber(blackLevelStr)
         IN [ok |-> parsed.ok, values |-> [i \in 1..4 |-> parsed.value]]

\* srcWhiteLevel and srcBlackLevel after the try block; threw is whether the
\* catch clause was entered.
OverrideLevels(levels, dynamic, static) ==
    LET separatorPos == Find(levels, "/", 1)
        white == ParseNumber(SubSeq(levels, 1, separatorPos - 1))
        black == ParseBlack(SubSeq(levels, separatorPos + 1, Len(levels)))
    IN IF levels = StaticText THEN static @@ [threw |-> FALSE]
       ELSE IF levels = <<>> \/ separatorPos = 0 THEN dynamic @@ [threw |-> FALSE]
       ELSE IF ~white.ok THEN dynamic @@ [threw |-> TRUE]
       ELSE IF ~black.ok
            THEN [white |-> white.value, black |-> dynamic.black, threw |-> TRUE]
            ELSE [white |-> white.value, black |-> black.values, threw |-> FALSE]

LevelStrings ==
    {StaticText} \cup UNION {[1..n -> LevelChars] : n \in 0..MaxLevelsLen}
NoLevels == [done |-> FALSE] @@ FrameDynamicLevels @@ [threw |-> FALSE]

LevelsAtRest ==
    /\ lvIn = <<>>
    /\ lvOut = NoLevels
InitLevels ==
    /\ lvIn \in LevelStrings
    /\ lvOut = NoLevels

\* preprocessData up to the end of the try block.
ApplyLevels ==
    /\ ~lvOut.done
    /\ lvOut' = [done |-> TRUE] @@ OverrideLevels(lvIn, FrameDynamicLevels, CameraLevels)
    /\ UNCHANGED lvIn
    /\ UNCHANGED <<earlierVars, tcVars, cfaVars, loopVars, winVars, inPlaceVars>>

NextLevels == ApplyLevels

(***************************************************************************)
(* The packers at work on the buffer itself.  ep.data is the byte vector,  *)
(* ep.src counts the 16-bit samples srcPtr has passed, ep.dst the bytes    *)
(* dstPtr has passed; ep.read lists the samples as they were read.         *)
(***************************************************************************)
InPlaceBits == {2, 4, 6, 8, 10, 12, 14}
InPlaceSizes == {<<4, 4>>, <<8, 4>>}     \* width and height, multiples of four
SamplePatterns == {1, 2}

encodeTo6Bit(p) ==
    LET v0 == p[1] % 64
        v1 == p[2] % 64
        v2 == p[3] % 64
        v3 == p[4] % 64
    IN << Byte(BitOr(v0 * 4, v1 \div 16)),
          Byte(BitOr((v1 % 16) * 16, v2 \div 4)),
          Byte(BitOr((v2 % 4) * 64, v3)) >>

encodeTo4Bit(p) == << Byte(BitOr((p[1] % 16) * 16, p[2] % 16)) >>

encodeTo2Bit(p) ==
    << Byte(BitOr(BitOr((p[1] % 4) * 64, (p[2] % 4) * 16),
                  BitOr((p[3] % 4) * 4, p[4] % 4))) >>

\* x += n of the inner loop, srcPtr += n
GroupSize(bits) ==
    CASE bits \in {2, 6, 10, 14} -> 4
      [] bits \in {4, 12} -> 2
      [] OTHER -> 1

\* A faulty variant: one byte per sample more than is written.
GroupBytes_Faulty(bits) == (GroupSize(bits) * bits) \div 8 + GroupSize(bits)
\* dstPtr += n
GroupBytes(bits) ==
    CASE bits = 2 -> 1
      [] bits = 4 -> 1
      [] bits = 6 -> 3
      [] bits = 8 -> 1
      [] bits = 10 -> 5
      [] bits = 12 -> 3
      [] OTHER -> 7

\* The bytes one pass of the inner loop stores.
EncodeGroup(bits, p) ==
    CASE bits = 2 -> encodeTo2Bit(p)
      [] bits = 4 -> encodeTo4Bit(p)
      [] bits = 6 -> encodeTo6Bit(p)
      [] bits = 8 -> encodeTo8Bit(p)
      [] bits = 10 -> encodeTo10Bit(p)
      [] bits = 12 -> Pair12(p[1], p[2])
      [] OTHER -> encodeTo14Bit(p)

\* srcPtr[i] of the buffer as it is now, little-endian
SampleAt(data, i) == data[2 * i + 1] + 256 * data[2 * i + 2]

\* The sample values of a frame: below 2^bits, or any 16-bit values.
OriginalSample(pattern, bits, i) ==
    IF pattern = 1 THEN (i * 2731 + 5) % Pow2(bits) ELSE 65535 - 257 * i

InPlaceIdle ==
    [bits |-> 8, width |-> 0, height |-> 0, original |-> <<>>, data |-> <<>>,
     src |-> 0, dst |-> 0, x |-> 0, y |-> 0, read |-> <<>>, done |-> FALSE]
InPlaceAtRest == ep = InPlaceIdle
InitBuffer ==
    \E bits \in InPlaceBits, size \in InPlaceSizes, pattern \in SamplePatterns :
        LET original == [i \in 1..(size[1] * size[2]) |->
                            OriginalSample(pattern, bits, i)]
        IN ep = [InPlaceIdle EXCEPT !.bits = bits, !.width = size[1],
                                    !.height = size[2], !.original = original,
                                    !.data = Keep16Bit(original)]

\* One pass of the inner loop: the samples are read, then the bytes stored.
EncodeStep ==
    /\ ~ep.done
    /\ ep.y < ep.height
    /\ LET n == GroupSize(ep.bits)
           p == [i \in 1..n |-> SampleAt(ep.data, ep.src + i - 1)]
           out == EncodeGroup(ep.bits, p)
           x == ep.x + n
       IN ep' = [ep EXCEPT
                   !.data = [k \in DOMAIN ep.data |->
                                IF k > ep.dst /\ k <= ep.dst + Len(out)
                                THEN out[k - ep.dst] ELSE ep.data[k]],
                   !.read = ep.read \o p,
                   !.src = ep.src + n,
                   !.dst = ep.dst + GroupBytes(ep.bits),
                   !.x = IF x < ep.width THEN x ELSE 0,
                   !.y = IF x < ep.width THEN ep.y ELSE ep.y + 1]
    /\ UNCHANGED <<earlierVars, tcVars, cfaVars, loopVars, winVars, levelVars>>

\* data.resize(dstPtr - data.data())
Resize ==
    /\ ~ep.done
    /\ ep.y >= ep.height
    /\ ep' = [ep EXCEPT !.done = TRUE,
                        !.data = [k \in 1..ep.dst |->
                                     IF k <= Len(ep.data) THEN ep.data[k] ELSE 0]]
    /\ UNCHANGED <<earlierVars, tcVars, cfaVars, loopVars, winVars, levelVars>>

NextInPlace == EncodeStep \/ Resize

(***************************************************************************)
(* Frame reads of the virtual file system with single-flight rendering.    *)
(* The implementation of VirtualFileSystemImpl_MCRAW is not among the      *)
(* sources; this part follows the specification: a registry key -> promise *)
(* in front of the renderer, and a cache consulted before it.  A key is    *)
(* (container, output index, settings fingerprint); a render is named by   *)
(* its number, which stands for the bytes it produced.                     *)
(***************************************************************************)
Keys == {"k1", "k2"}
Readers == 1..MaxReaders
MaxRenders == 3
NoRenderId == 0

IdleReader == [pc |-> "idle", key |-> "k1", got |-> NoRenderId, ok |-> FALSE]

InitFlight ==
    /\ registry = [k \in Keys |-> NoRenderId]
    /\ cache = [k \in Keys |-> NoRenderId]
    /\ readers = [r \in Readers |-> IdleReader]
    /\ renders = 0

\* Does a request for key k take the single-flight slot, that is, render?
TakesSlot_Faulty(k) == TRUE
TakesSlot(k) == registry[k] = NoRenderId

\* read_frame(k): a cache hit returns at once; else the first request for
\* the key renders and the others suspend on its promise.
ReadFrame(r, k) ==
    /\ readers[r].pc = "idle"
    /\ IF cache[k] # NoRenderId
       THEN /\ readers' = [readers EXCEPT ![r] = [pc |-> "returned", key |-> k,
                                                  got |-> cache[k], ok |-> TRUE]]
            /\ UNCHANGED <<registry, renders>>
       ELSE IF TakesSlot(k)
       THEN /\ renders < MaxRenders
            /\ renders' = renders + 1
            /\ registry' = [registry EXCEPT ![k] = renders + 1]
            /\ readers' = [readers EXCEPT ![r] = [pc |-> "rendering", key |-> k,
                                                  got |-> renders + 1, ok |-> FALSE]]
       ELSE /\ readers' = [readers EXCEPT ![r] = [pc |-> "suspended", key |-> k,
                                                  got |-> registry[k], ok |-> FALSE]]
            /\ UNCHANGED <<registry, renders>>
    /\ UNCHANGED cache
    /\ UNCHANGED <<uploadVars, jobVars, renderVars, packVars, encVars, fpsVars, laterVars>>

\* The render of reader r completes, with bytes or with an error: the cache
\* insert hook is called after success, the promise is resolved and every
\* request suspended on it receives the same result.
RenderCompletes(r, success) ==
    /\ readers[r].pc = "rendering"
    /\ LET k == readers[r].key
           id == readers[r].got
       IN /\ cache' = IF success THEN [cache EXCEPT ![k] = id] ELSE cache
          /\ registry' = IF registry[k] = id THEN [registry EXCEPT ![k] = NoRenderId]
                         ELSE registry
          /\ readers' = [q \in Readers |->
                            IF q = r \/ (readers[q].pc = "suspended" /\ readers[q].got = id)
                            THEN [readers[q] EXCEPT !.pc = "returned", !.ok = success]
                            ELSE readers[q]]
    /\ UNCHANGED renders
    /\ UNCHANGED <<uploadVars, jobVars, renderVars, packVars, encVars, fpsVars, laterVars>>

\* The caller takes its result; the reader can ask again.
ReadReturns(r) ==
    /\ readers[r].pc = "returned"
    /\ readers' = [readers EXCEPT ![r] = IdleReader]
    /\ UNCHANGED <<registry, cache, renders>>
    /\ UNCHANGED <<uploadVars, jobVars, renderVars, packVars, encVars, fpsVars, laterVars>>

NextFlight ==
    \/ \E r \in Readers, k \in Keys : ReadFrame(r, k)
    \/ \E r \in Readers, success \in BOOLEAN : RenderCompletes(r, success)
    \/ \E r \in Readers : ReadReturns(r)

EarlierAtRest ==
    InitUpload /\ InitJobs /\ RenderAtRest /\ InitFlight /\ PackAtRest /\ EncodeAtRest /\ FpsAtRest
LaterAtRest ==
    TimecodeAtRest /\ CfaAtRest /\ LoopAtRest /\ WindowAtRest /\ LevelsAtRest
    /\ InPlaceAtRest

Init == EarlierAtRest /\ LaterAtRest

InitTimecode == EarlierAtRest /\ InitTc /\ CfaAtRest /\ LoopAtRest /\ WindowAtRest /\ LevelsAtRest
    /\ InPlaceAtRest
InitPattern == EarlierAtRest /\ TimecodeAtRest /\ InitCfa /\ LoopAtRest /\ WindowAtRest /\ LevelsAtRest
    /\ InPlaceAtRest
InitPixels == EarlierAtRest /\ TimecodeAtRest /\ CfaAtRest /\ InitLoop /\ WindowAtRest /\ LevelsAtRest
    /\ InPlaceAtRest
InitMainWindow ==
    /\ EarlierAtRest /\ TimecodeAtRest /\ CfaAtRest /\ LoopAtRest /\ InitWindow
    /\ LevelsAtRest /\ InPlaceAtRest
InitOverride ==
    /\ EarlierAtRest /\ TimecodeAtRest /\ CfaAtRest /\ LoopAtRest /\ WindowAtRest
    /\ InitLevels /\ InPlaceAtRest
InitInPlace ==
    /\ EarlierAtRest /\ TimecodeAtRest /\ CfaAtRest /\ LoopAtRest /\ WindowAtRest
    /\ LevelsAtRest /\ InitBuffer

InitRendering ==
    InitUpload /\ InitJobs /\ InitRender /\ InitFlight /\ PackAtRest /\ EncodeAtRest /\ FpsAtRest /\ LaterAtRest

InitPacking ==
    InitUpload /\ InitJobs /\ RenderAtRest /\ InitFlight /\ InitPack /\ EncodeAtRest /\ FpsAtRest /\ LaterAtRest

InitEncoding ==
    InitUpload /\ InitJobs /\ RenderAtRest /\ InitFlight /\ PackAtRest /\ InitEncode /\ FpsAtRest /\ LaterAtRest

InitInference ==
    InitUpload /\ InitJobs /\ RenderAtRest /\ InitFlight /\ PackAtRest /\ EncodeAtRest
    /\ InitFps /\ LaterAtRest

SpecUpload ==
    Init /\ [][NextUpload]_vars
SpecJobs ==
    Init /\ [][NextJobs]_vars
SpecRender ==
    InitRendering /\ [][NextRender]_vars
SpecFlight ==
    Init /\ [][NextFlight]_vars
SpecPack ==
    InitPacking /\ [][NextPack]_vars
SpecEncode ==
    InitEncoding /\ [][NextEncode]_vars
SpecFps ==
    InitInference /\ [][NextFps]_vars
SpecTimecode ==
    InitTimecode /\ [][NextTimecode]_vars
SpecCfa ==
    InitPattern /\ [][NextCfa]_vars
SpecLoop ==
    InitPixels /\ [][NextLoop]_vars
SpecWindow ==
    InitMainWindow /\ [][NextWindow]_vars
SpecLevels ==
    InitOverride /\ [][NextLevels]_vars
SpecInPlace ==
    InitInPlace /\ [][NextInPlace]_vars


(***************************************************************************)
(* Properties.                                                             *)
(***************************************************************************)

\* C1: a processClientSideMcraw call that returns normally has
\* failedFrames <= 0.8 * N, N the number of frames it was asked to process.
C1_ReturnedWithinThreshold ==
    \A k \in JobIds :
        results[k].returned = "ok" =>
            ~TooManyFailures(results[k].failedFrames, results[k].totalFrames)

RenderingOn(k) == {r \in Readers : readers[r].pc = "rendering" /\ readers[r].key = k}
SuspendedOn(k) == {r \in Readers : readers[r].pc = "suspended" /\ readers[r].key = k}

\* C2: of the concurrent requests for one key at most one is in the
\* renderer; a request is suspended only on the render in flight for its
\* key; the requests served by one render receive the same result.
C2_SingleFlight ==
    /\ \A k \in Keys : Cardinality(RenderingOn(k)) <= 1
    /\ \A k \in Keys : \A r \in SuspendedOn(k) :
           \E q \in RenderingOn(k) : readers[q].got = readers[r].got
    /\ \A r, q \in Readers :
           /\ readers[r].pc = "returned" /\ readers[q].pc = "returned"
           /\ readers[r].got = readers[q].got
           => readers[r].ok = readers[q].ok /\ readers[r].key = readers[q].key

C2_Witness ==
    \E k \in Keys :
        /\ Cardinality(RenderingOn(k)) = 1
        /\ Cardinality(SuspendedOn(k)) = 2

\* C3: a job the user cancelled does not end in status completed.
C3_CancelledNeverCompleted ==
    \A k \in JobIds :
        jobs[k].error = "Cancelled by user" => jobs[k].status # "completed"

\* C4: the strategies are tried in the order 1, 2, 3, 4, 5; every strategy
\* before the last one tried found nothing; the chain stops at the first one
\* that found a frame; the frame index holds frames of that strategy only.
C4_OrderedStrategies ==
    upStatus = "ready" =>
        LET tried == upDecoder.tried
            m == Len(tried)
        IN /\ m \in 1..NumStrategies
           /\ \A i \in 1..m : tried[i][1] = i
           /\ \A i \in 1..(m - 1) : tried[i][2] = 0
           /\ m < NumStrategies => tried[m][2] > 0
           /\ \A j \in 1..Len(upDecoder.frameInfos) :
                  /\ upDecoder.frameInfos[j].by = m
                  /\ tried[m][2] > 0

C4_Witness ==
    /\ upStatus = "ready"
    /\ Len(upDecoder.tried) = 3
    /\ Len(upDecoder.frameInfos) > 0

\* C5: every frame record parse() produced lies within the payload region:
\* offset >= end of the JSON metadata and offset + size <= file length.
C5_FramesWithinPayload ==
    upStatus = "ready" =>
        \A j \in 1..Len(upDecoder.frameInfos) :
            /\ upDecoder.frameInfos[j].offset >= upDecoder.frameDataStart
            /\ upDecoder.frameInfos[j].offset + upDecoder.frameInfos[j].size <= upFile.len

JsonMissing(f) == ~findJsonMetadata(f).found
GeometryMissing(f) == f.meta.width = 0 /\ f.meta.height = 0
ParserExhausted(f) ==
    LET jsonResult == findJsonMetadata(f)
    IN /\ jsonResult.found
       /\ Len(scanFrameBlocks(f, jsonResult.endOffset).frameInfos) = 0
FailedWithoutOutput(k) ==
    /\ results[k].returned = "threw"
    /\ results[k].error # ""
    /\ results[k].delivered = 0

\* C6 as stated: no JSON metadata, or no geometry in it, or no frame found by
\* any strategy: the job fails with an error and delivers no frame.
C6_AsStated ==
    \A k \in JobIds :
        /\ results[k].returned # "none"
        /\ JsonMissing(jobFile) \/ GeometryMissing(jobFile) \/ ParserExhausted(jobFile)
        => FailedWithoutOutput(k)

\* C6 as the code has it: a container without locatable JSON metadata is
\* rejected with an error when it is added and never becomes a job; a job
\* over a container in which no strategy finds a frame fails with an error
\* and delivers no frame.  (Missing geometry is replaced by 4032 x 3024.)
C6_Amended ==
    /\ upStatus \in {"ready", "error"} /\ JsonMissing(upFile) => upStatus = "error"
    /\ run.pc # "idle" => ~JsonMissing(jobFile)
    /\ \A k \in JobIds :
          results[k].returned # "none" /\ ParserExhausted(jobFile)
          => FailedWithoutOutput(k)

C6_Witness ==
    /\ ParserExhausted(jobFile)
    /\ results[1].returned = "threw"
    /\ results[1].error = "No frames found in MCRAW file"
    /\ jobs[1].status = "failed"

NoLayoutFits(rawLen, w, h) ==
    /\ rawLen # Size16(w * h)
    /\ ~(rawLen >= Size12(w * h) /\ rawLen < Size16(w * h))
    /\ rawLen # w * h
    /\ \A k \in 1..Len(commonResolutions) :
          LET pixels == commonResolutions[k][1] * commonResolutions[k][2]
          IN /\ Abs(rawLen - Size12(pixels)) >= ResolutionTolerance
             /\ Abs(rawLen - Size16(pixels)) >= ResolutionTolerance

\* The thumbnail frame's payload was unpacked and fits no layout.
ThumbFitsNoLayout ==
    /\ upStatus = "ready"
    /\ upThumb.rawLen >= 0
    /\ NoLayoutFits(upThumb.rawLen, upDecoder.width, upDecoder.height)

C8_SamplesWithinWhiteLevel ==
    rOut.done =>
        /\ rOut.whiteLevel <= 65535
        /\ 0 <= rOut.sample
        /\ rOut.sample <= rOut.whiteLevel

\* C9: the DNG has a LinearizationTable exactly when the log curve was
\* applied to the pixels.
C9_TableIffLogApplied ==
    rOut.done => (rOut.linearizationTable <=> rOut.formula = "log")

ShadingMapUsable(meta) ==
    /\ meta.lensShadingMapPlanes > 0
    /\ meta.lensShadingPlane0 > 0
    /\ meta.lensShadingMapWidth > 0
    /\ meta.lensShadingMapHeight > 0

\* C10 as stated: the DNG has an OpcodeList2 exactly when the shading map was
\* not baked into the pixels.
C10_AsStated ==
    rOut.done => (rOut.opcodeList2 <=> ~rOut.baked)

\* C10 as the code has it: the DNG has an OpcodeList2 exactly when the
\* shading map was not baked into the pixels and the frame has a shading
\* map with a non-empty first plane and positive width and height; it
\* never has both baked shading and an OpcodeList2.
C10_Amended ==
    rOut.done =>
        /\ rOut.opcodeList2 <=> (~rOut.baked /\ ShadingMapUsable(rIn.meta))
        /\ ~(rOut.baked /\ rOut.opcodeList2)

C10_Witness ==
    /\ rOut.done
    /\ ~rOut.baked
    /\ ShadingMapUsable(rIn.meta)
    /\ rOut.opcodeList2
\* C11: for every width in 8, 10, 12, 14, 16 and every sample below 2^width,
\* unpacking the bytes made by packing the sample gives the sample back.
C11_RoundTrip ==
    pkOut.pc = "unpacked" =>
        /\ ~pkOut.threw
        /\ pkOut.samples = pkIn.row

\* C12: two renders of the same frame with the same settings give the same
\* bytes, whatever the time of the call and whatever was rendered before.
C12_SameBytes ==
    \A i \in DOMAIN encOut : \A j \in DOMAIN encOut : encOut[i] = encOut[j]

\* The median positive delta of the timestamp vector, 0 when there is none.
MedianDeltaOf(ts) ==
    IF Len(ts) < 2 \/ Len(PositiveDeltas(ts, 2, <<>>)) = 0 THEN 0
    ELSE SortedAt(PositiveDeltas(ts, 2, <<>>), Len(PositiveDeltas(ts, 2, <<>>)) \div 2)

\* C13: the raw rate 1 / median positive delta is snapped to a common rate
\* whenever it lies within 5% of that rate.
C13_SnapsToEveryCloseRate ==
    (fpsOut.done /\ MedianDeltaOf(fpsIn) > 0) =>
        \A k \in DOMAIN commonRates :
            WithinFivePercent(RawFps(MedianDeltaOf(fpsIn)), commonRates[k])
                => fpsOut.fps = commonRates[k]

\* C14: after parse() the timestamps of the frame records never decrease
\* with the frame index, whether read from a per-frame document or made up
\* from the frame index.
C14_TimestampsNonDecreasing ==
    upStatus = "ready" =>
        \A i \in DOMAIN upDecoder.frameInfos : \A j \in DOMAIN upDecoder.frameInfos :
            i < j => upDecoder.frameInfos[i].timestamp24
                         <= upDecoder.frameInfos[j].timestamp24

\* The headers read by the typed-block strategy on the uploaded file.
TypedTrace == upDecoder.typed.trace
InvalidRun(k, n) == k >= n /\ \A m \in (k - n + 1)..k : TypedTrace[m].as = "invalid"

PlainRender ==
    /\ rOut.done
    /\ ~rIn.applyShadingMap /\ ~rIn.normaliseShadingMap /\ ~rIn.debugShadingMap
    /\ ~rIn.interpretAsQuadBayer
    /\ rIn.levels.kind # "override"
    /\ rIn.logTransform = "Disabled"
    /\ rIn.scale = 1
    /\ rIn.sample <= SrcLevels(rIn).white

C16_TableEndpoints ==
    (rOut.done /\ rOut.linearizationTable) =>
        /\ rOut.tableSize = rOut.whiteLevel + 1
        /\ rOut.tableFirst = 0
        /\ rOut.tableLast = 65535

\* C17: a job's status only moves queued -> processing -> completed or
\* failed (a job is queued and the first one marked processing in one step; a
\* queued job may be cancelled; a finished job may be cleared from the list),
\* and the status of a completed or failed job never changes again.
StatusMoves ==
    { <<"absent", "queued">>, <<"absent", "processing">>,
      <<"queued", "processing">>, <<"queued", "failed">>,
      <<"processing", "completed">>, <<"processing", "failed">>,
      <<"completed", "absent">>, <<"failed", "absent">> }
C17_StatusOrder ==
    [][\A k \in JobIds :
          \/ jobs'[k].status = jobs[k].status
          \/ <<jobs[k].status, jobs'[k].status>> \in StatusMoves]_vars

\* The type-3 blocks holding a JSON document that the typed-block strategy
\* read after the frame before its k-th header and before that header.
FramesUpTo(k) == {m \in 1..k : TypedTrace[m].as = "frame"}
DocsBefore(k) ==
    {m \in 1..(k - 1) :
        /\ TypedTrace[m].as = "audio"
        /\ (TypedTrace[m].at + 8) \in DOMAIN upFile.aux
        /\ \A n \in FramesUpTo(k - 1) : n < m}

C20_CompressedFlag ==
    upStatus = "ready" =>
        \A j \in DOMAIN upDecoder.frameInfos :
            LET rec == upDecoder.frameInfos[j]
            IN rec.isCompressed <=>
                   \/ isZstdCompressed(upFile, rec.offset)
                   \/ BelowNineTenths(rec.size, expected12BitSize(upFile))

\* Strategies 1 to 4 were tried on the uploaded file and recorded nothing.
OnlyRawBayerLeft ==
    /\ upStatus = "ready"
    /\ Len(upDecoder.tried) = 5
    /\ \A n \in 1..4 : upDecoder.tried[n][2] = 0

\* C21: when strategies 1 to 4 record nothing and the metadata gives a
\* geometry W x H, the raw Bayer partition records floor(remaining /
\* (W * H * 2)) frames of W * H * 2 bytes each, contiguous from the start of
\* the payload and marked uncompressed.
C21_RawBayerPartition ==
    (OnlyRawBayerLeft /\ upFile.meta.width # 0 /\ upFile.meta.height # 0) =>
        LET frameSize == upFile.meta.width * upFile.meta.height * 2
            remaining == upFile.len - upDecoder.frameDataStart
        IN /\ Len(upDecoder.frameInfos) = remaining \div frameSize
           /\ \A j \in DOMAIN upDecoder.frameInfos :
                 /\ upDecoder.frameInfos[j].offset
                        = upDecoder.frameDataStart + (j - 1) * frameSize
                 /\ upDecoder.frameInfos[j].size = frameSize
                 /\ ~upDecoder.frameInfos[j].isCompressed

\* useBits as the statement of C22 gives it.
StatedUseBits(o) ==
    LET bits == bitsNeeded(SrcLevels(o).white)
    IN IF o.normaliseShadingMap THEN Min(16, bits + 4)
       ELSE IF o.logTransform = "Disabled" THEN Min(16, bits + 2)
       ELSE Min(16, bits - ReducedBits(o.logTransform))

\* C22: with APPLY_VIGNETTE the renderer returns destination black level 0
\* and destination white level 2^useBits - 1, useBits = min(16,
\* bitsNeeded(srcWhite) + 4) with NORMALIZE_SHADING_MAP and otherwise
\* min(16, bitsNeeded(srcWhite) + d), d = +2 for Disabled and 0, -2, -4, -6,
\* -8 for KeepInput and ReduceBy2Bit to ReduceBy8Bit.
C22_VignetteLevels ==
    (rOut.done /\ rIn.applyShadingMap) =>
        /\ rOut.blackLevel = 0
        /\ rOut.whiteLevel = IF StatedUseBits(rIn) >= 0
                             THEN 2 ^ StatedUseBits(rIn) - 1 ELSE 0

\* A byte read as two decimal digits.
Bcd(byte) == (byte \div 16) * 10 + (byte % 16)

\* C23: bytes 0 to 3 of the time code read as two decimal digits give
\* ff = frameNumber mod round(fps), and the seconds, minutes and hours of
\* t = frameNumber / fps; bytes 4 to 7 are zero.
C23_TimeCodeReadsBack ==
    tcOut.done =>
        LET t == (tcIn.frameNumber * 100) \div tcIn.fps100
        IN /\ Bcd(tcOut.timeCode[1]) = tcIn.frameNumber % ((tcIn.fps100 + 50) \div 100)
           /\ Bcd(tcOut.timeCode[2]) = t % 60
           /\ Bcd(tcOut.timeCode[3]) = (t \div 60) % 60
           /\ Bcd(tcOut.timeCode[4]) = t \div 3600
           /\ \A i \in 5..8 : tcOut.timeCode[i] = 0

\* The colour indices of an arrangement: 0 = Red, 1 = Green, 2 = Blue.
ColourIndex(c) ==
    CASE c \in {"R", "r"} -> 0
      [] c \in {"G", "g"} -> 1
      [] OTHER -> 2
BayerArrangements ==
    { <<"R", "G", "G", "B">>, <<"B", "G", "G", "R">>, <<"G", "R", "B", "G">>,
      <<"G", "B", "R", "G">>, <<"r", "g", "g", "b">>, <<"b", "g", "g", "r">>,
      <<"g", "r", "b", "g">>, <<"g", "b", "r", "g">> }

\* C24: for the four Bayer arrangements, written in the case the encoder
\* expects (upper case for DngEncoder, lower case for generateDng), the
\* CFAPattern bytes are the colour indices of the arrangement: RGGB gives
\* [0,1,1,2], BGGR [2,1,1,0], GRBG [1,0,2,1], GBRG [1,2,0,1].
C24_CfaPatternBytes ==
    ( /\ cfaOut.done
      /\ cfaIn.pattern \in BayerArrangements
      /\ (cfaIn.encoder = "DngEncoder") = (cfaIn.pattern[1] \in {"R", "G", "B"}) ) =>
        /\ ~cfaOut.threw
        /\ cfaOut.bytes = [i \in 1..4 |-> ColourIndex(cfaIn.pattern[i])]

\* C25: when processClientSideMcraw returns normally, successfulFrames +
\* failedFrames = totalFrames, successfulFrames >= 1, and onFrameReady was
\* called successfulFrames times, for frames of the requested range in
\* increasing order.
C25_CountsAddUp ==
    \A k \in JobIds :
        results[k].returned = "ok" =>
            /\ results[k].successfulFrames + results[k].failedFrames
                   = results[k].totalFrames
            /\ results[k].successfulFrames >= 1
            /\ Len(results[k].sink) = results[k].successfulFrames
            /\ \A a, b \in DOMAIN results[k].sink :
                   a < b => results[k].sink[a] < results[k].sink[b]
            /\ \A a \in DOMAIN results[k].sink :
                   /\ results[k].sink[a] >= settings.frameRange.start
                   /\ results[k].sink[a] < settings.frameRange.start + results[k].totalFrames

\* A job that returned with frames delivered on both sides of failed ones.
C25_Witness ==
    /\ results[1].returned = "ok"
    /\ results[1].failedFrames >= 2
    /\ Len(results[1].sink) >= 2
    /\ results[1].sink[2] > results[1].sink[1] + 1
    /\ settings.frameRange.start = 1

\* The size of the output buffer of the pixel loop, in samples.
OutputSamples ==
    LET new == NewSize(lpIn.size, lpIn.crop, EvenScale(lpIn.scale))
    IN new[1] * new[2]

\* C26: for every input size, crop target, draft scale and Quad-Bayer
\* setting the pixel loop reads only source samples inside the input frame
\* and writes each output sample exactly once, inside the output buffer.
C26_LoopStaysInside ==
    /\ \A rc \in lp.reads :
          /\ 0 <= rc[1] /\ rc[1] < lpIn.size[2]
          /\ 0 <= rc[2] /\ rc[2] < lpIn.size[1]
    /\ \A i \in lp.written : 0 <= i /\ i < OutputSamples
    /\ lp.twice = {}
    /\ lp.pc = "done" => lp.written = 0..(OutputSamples - 1)

\* A 16 x 16 Quad-Bayer frame rendered at full size: sixteen blocks of 4 x 4.
C26_Witness ==
    /\ lp.pc = "done"
    /\ lpIn.interpretAsQuadBayer /\ lpIn.scale = 1 /\ lpIn.size = <<16, 16>>
    /\ Cardinality(lp.written) = 256

\* The dependencies of the shading-map options.
RespectsDependencies(options) ==
    /\ "NORMALIZE_SHADING_MAP" \in options => "APPLY_VIGNETTE_CORRECTION" \in options
    /\ "DEBUG_SHADING_MAP" \in options => "APPLY_VIGNETTE_CORRECTION" \in options
    /\ "VIGNETTE_ONLY_COLOR" \in options => "APPLY_VIGNETTE_CORRECTION" \in options
    /\ ~("DEBUG_SHADING_MAP" \in options /\ "NORMALIZE_SHADING_MAP" \in options)

\* C27: after any changes of the check boxes and the combo box, once the
\* handlers and every scheduled label refresh have run, the settings last
\* passed to updateOptions for each mounted file are those of the current
\* widget state, and they respect the dependencies of the options.
C27_SettingsFollowWidgets ==
    (win.timers = 0 /\ win.passed # UpdateAll(NoSettings)) =>
        \A f \in MountIds :
            /\ win.passed[f] = RenderSettings(win.w)
            /\ RespectsDependencies(win.passed[f].options)

\* All timers have fired after a click whose handler had passed on settings
\* the widgets no longer showed.
C27_Witness ==
    /\ win.timers = 0
    /\ win.stale
    /\ win.passed # UpdateAll(NoSettings)

\* C28: a levels override of the form white/black that fails to parse in
\* either part leaves the source white level and all four source black
\* levels at the frame's dynamic levels.
C28_FailedOverrideChangesNothing ==
    (lvOut.done /\ lvOut.threw) =>
        /\ lvOut.white = FrameDynamicLevels.white
        /\ lvOut.black = FrameDynamicLevels.black

\* The rate returned for a raw rate given in hundredths: the first common
\* rate within 5%, else the rounded rate.
SnapOf(fps100) ==
    LET raw == [num |-> fps100, den |-> 100]
        snapped == SnapFrom(raw, 1)
        result == RoundFps(raw)
    IN IF snapped # 0 THEN snapped
       ELSE IF result > 0 /\ result < 1000 THEN 100 * result
       ELSE DefaultFps

\* C29: a raw rate that is one of the common rates is returned as that same
\* rate, and snapping the returned rate again gives it back unchanged.
C29_SnapFixesCommonRates ==
    (fpsOut.done /\ MedianDeltaOf(fpsIn) > 0) =>
        LET raw == RawFps(MedianDeltaOf(fpsIn))
        IN /\ \A k \in DOMAIN commonRates :
                  100 * raw.num = commonRates[k] * raw.den => fpsOut.fps = commonRates[k]
           /\ SnapOf(fpsOut.fps) = fpsOut.fps

\* C30: in each in-place packer (2, 4, 6, 8, 10, 12 and 14 bits) the write
\* position never passes the read position, every sample is read as it was
\* before packing began, and on return the buffer holds width * height *
\* bits / 8 bytes.
C30_WriteBehindRead ==
    /\ ep.dst <= 2 * ep.src
    /\ ep.read = SubSeq(ep.original, 1, ep.src)
    /\ ep.done => Len(ep.data) * 8 = ep.width * ep.height * ep.bits

\* A 14-bit packer has returned from a buffer of more than one group a row.
C30_Witness ==
    /\ ep.done
    /\ ep.bits = 14
    /\ ep.width > 4
    /\ ep.src = ep.width * ep.height

=============================================================================
